---- MODULE Spec2Model ----
(***************************************************************************)
(* Model of the Scr screen library (screen/src/screen.cpp), POSIX/curses   *)
(* build: the virtual screen image, the physical shadow image, the cursor  *)
(* records, the initialize/terminate reference count, and the curses       *)
(* terminal (stdscr, its cursor, and the display that ::refresh commits).  *)
(* Every public function is one action.  A handler's calls into curses,    *)
(* the keyboard hooks and the allocator are recorded, in order, in         *)
(* `trace`; the terminal state is the result of running those commands.    *)
(***************************************************************************)
EXTENDS Integers, Sequences, FiniteSets

\* ------------------------------------------------------------------ bounds
\* LINES and COLS of the larger terminal explored (the smaller one is 1 x 1).
MaxRows == 2
MaxCols == 3
\* Deepest nesting of initialize() calls explored.
MaxInit == 2
\* Longest sequence of calls explored by Spec.
MaxCalls == 5

\* -------------------------------------------------------- program constants
BLACK == 0
GREEN == 2
WHITE == 7
REV_BLACK == 0
REV_GREEN == 32
REV_WHITE == 112
BRIGHT == 8
BLINK == 128
\* Static geometry before the first initialize().
total_rows_default == 24
total_columns_default == 80
\* The cap initialize_colors puts on COLOR_PAIRS.
max_color_pairs == 64
\* ' '
SPACE == 32

\* The range of int.
INT_MAX == 2147483647
INT_MIN == -INT_MAX - 1

\* The build's plain char is signed (x86 POSIX ABI): a stored byte >= 0x80
\* promotes to a negative int.
CHAR_IS_SIGNED == TRUE

\* ------------------------------------------------------------ bit helpers
RECURSIVE BitAnd(_, _)
BitAnd(a, b) ==
    IF a = 0 \/ b = 0 THEN 0
    ELSE (a % 2) * (b % 2) + 2 * BitAnd(a \div 2, b \div 2)

RECURSIVE BitOr(_, _)
BitOr(a, b) ==
    IF a = 0 THEN b
    ELSE IF b = 0 THEN a
    ELSE (IF a % 2 = 1 \/ b % 2 = 1 THEN 1 ELSE 0) + 2 * BitOr(a \div 2, b \div 2)

\* int & int for operands within -32768..32767, computed on the two's
\* complement pattern (16 bits are enough for sign-extended char operands).
IntAnd(x, y) ==
    LET ux == IF x < 0 THEN x + 65536 ELSE x
        uy == IF y < 0 THEN y + 65536 ELSE y
        r  == BitAnd(ux, uy)
    IN  IF r >= 32768 THEN r - 65536 ELSE r

\* ~m for a small non-negative int m.
IntNot(m) == -m - 1

\* The int a stored char promotes to.  Bytes are kept as 0..255 patterns.
CharToInt(b) == IF CHAR_IS_SIGNED /\ b >= 128 THEN b - 256 ELSE b

\* static_cast<char>(int): the low 8 bits.
IntToChar(v) == v % 256

\* ------------------------------------------------------- attribute model
\* A conversion that gives another attribute each time it is applied.  C14
\* must tell it from convert_attribute.
convert_by_stepping(color_ok, attribute) ==
    IF color_ok THEN attribute ELSE (attribute + 16) % 256

convert_losing_blink(color_ok, attribute) ==
    IF color_ok THEN attribute
    ELSE IF BitAnd(attribute, 112) = REV_BLACK
         THEN BitOr(attribute, WHITE)
         ELSE BitAnd(BitOr(attribute, REV_WHITE), 120)

convert_attribute(color_ok, attribute) ==
    IF color_ok THEN attribute
    ELSE IF BitAnd(attribute, 112) = REV_BLACK
         THEN BitOr(attribute, WHITE)
         ELSE BitAnd(BitOr(attribute, REV_WHITE), 248)

reverse_losing_bright(attribute) ==
    LET first  == BitAnd(attribute, 7)
        second == BitAnd(attribute, 112) \div 16
        erased == BitAnd(BitAnd(attribute, 240), 143)
    IN  BitOr(BitOr(erased, first * 16), second)

reverse_attribute(attribute) ==
    LET first  == BitAnd(attribute, 7)
        second == BitAnd(attribute, 112) \div 16
        erased == BitAnd(BitAnd(attribute, 248), 143)
    IN  BitOr(BitOr(erased, first * 16), second)

\* ---------------------------------------------------------- curses glyphs
\* What addch is handed: the glyph (a raw byte, or an ACS_ symbol), the
\* A_BLINK / A_BOLD flags and the colour pair number.
chtype(acs, raw, blink, bold, pair) ==
    [acs |-> acs, raw |-> raw, blink |-> blink, bold |-> bold, pair |-> pair]

\* A blank cell of a window that werase/initscr produced.
BlankCh == chtype("", SPACE, FALSE, FALSE, 0)

\* box_character_map after initialize_character_map().
character_associations ==
    [k \in {205, 186, 201, 187, 200, 188, 181, 198, 208, 210, 206,
            196, 179, 218, 191, 192, 217, 180, 195, 193, 194, 197,
            177, 219} |->
        CASE k \in {205, 196} -> "ACS_HLINE"
          [] k \in {186, 179} -> "ACS_VLINE"
          [] k \in {201, 218} -> "ACS_ULCORNER"
          [] k \in {187, 191} -> "ACS_URCORNER"
          [] k \in {200, 192} -> "ACS_LLCORNER"
          [] k \in {188, 217} -> "ACS_LRCORNER"
          [] k \in {181, 180} -> "ACS_RTEE"
          [] k \in {198, 195} -> "ACS_LTEE"
          [] k \in {208, 193} -> "ACS_BTEE"
          [] k \in {210, 194} -> "ACS_TTEE"
          [] k \in {206, 197} -> "ACS_PLUS"
          [] OTHER -> "ACS_CKBOARD"]

\* colors_map after initialize_colors(): Scr colour byte -> pair number.
color_associations ==
    [k \in {fg + 16 * bg : fg \in 0..7, bg \in 0..7} |->
        LET fg == k % 16
            bg == k \div 16
        IN  8 * bg + (IF fg = WHITE THEN 0 ELSE IF fg = BLACK THEN 7 ELSE fg)]

\* The empty std::map.
EmptyMap == [k \in {} |-> 0]

\* The translation refresh and redraw apply to one cell before addch.
new_character(ch, at, box_map, col_map, color_ok) ==
    LET key   == CharToInt(ch)
        found == key \in DOMAIN box_map
        just_color == IntAnd(CharToInt(at), IntNot(BitOr(BLINK, BRIGHT)))
    IN  chtype(IF found THEN box_map[key] ELSE "",
               IF found THEN -1 ELSE ch,
               IntAnd(CharToInt(at), BLINK) # 0,
               IntAnd(CharToInt(at), BRIGHT) # 0,
               IF color_ok /\ just_color \in DOMAIN col_map
               THEN col_map[just_color] ELSE 0)

\* ------------------------------------------------------- box characters
\* enum BoxType.
DOUBLE_LINE   == 0
SINGLE_LINE   == 1
DARK_GRAPHIC  == 2
LIGHT_GRAPHIC == 3
SOLID         == 4
ASCII         == 5
BLANK_BOX     == 6
NO_BORDER     == 7

BoxTypes == DOUBLE_LINE..NO_BORDER

box_definitions_single_first ==
    << <<196, 179, 218, 191, 192, 217, 180, 195, 193, 194, 197>>,
       <<205, 186, 201, 187, 200, 188, 181, 198, 208, 210, 206>>,
       <<177, 177, 177, 177, 177, 177, 177, 177, 177, 177, 177>>,
       <<176, 176, 176, 176, 176, 176, 176, 176, 176, 176, 176>>,
       <<219, 219, 219, 219, 219, 219, 219, 219, 219, 219, 219>>,
       <<45, 124, 43, 43, 43, 43, 43, 43, 43, 43, 43>>,
       <<32, 32, 32, 32, 32, 32, 32, 32, 32, 32, 32>> >>

\* The table of box drawing characters, one BoxChars per row: horizontal,
\* vertical, upper_left, upper_right, lower_left, lower_right, left_stop,
\* right_stop, top_stop, bottom_stop, cross.  Row k of the C++ array is
\* element k + 1 of the sequence.
box_definitions ==
    << <<205, 186, 201, 187, 200, 188, 181, 198, 208, 210, 206>>,
       <<196, 179, 218, 191, 192, 217, 180, 195, 193, 194, 197>>,
       <<177, 177, 177, 177, 177, 177, 177, 177, 177, 177, 177>>,
       <<176, 176, 176, 176, 176, 176, 176, 176, 176, 176, 176>>,
       <<219, 219, 219, 219, 219, 219, 219, 219, 219, 219, 219>>,
       <<45, 124, 43, 43, 43, 43, 43, 43, 43, 43, 43>>,
       <<32, 32, 32, 32, 32, 32, 32, 32, 32, 32, 32>> >>

box_index_all_ascii(ascii_boxes, the_type) ==
    IF ascii_boxes THEN ASCII ELSE the_type

\* The index get_box_characters uses into box_definitions; ascii_boxes says
\* whether the library was built with SCR_ASCIIBOXES.
box_index(ascii_boxes, the_type) ==
    IF ascii_boxes
    THEN IF the_type = BLANK_BOX THEN BLANK_BOX ELSE ASCII
    ELSE the_type

\* What a caller may find behind a pointer past the end of box_definitions:
\* the eleven ints are whatever the build placed after the table.
UndefinedGlyphs == {[k \in 1..11 |-> v] : v \in {0, 255}}

\* The BoxChars the caller reads through the returned pointer: one outcome
\* when the index is inside the table, any of UndefinedGlyphs when not.
get_box_characters(ascii_boxes, the_type) ==
    LET index == box_index(ascii_boxes, the_type)
    IN  IF index + 1 \in DOMAIN box_definitions
        THEN {box_definitions[index + 1]}
        ELSE UndefinedGlyphs

\* ------------------------------------------------------------------ Timer
\* The POSIX mytimer_t.
mytimer_t(seconds, milliseconds) ==
    [seconds |-> seconds, milliseconds |-> milliseconds]

\* get_time_as_integer() when the system time is now milliseconds.
get_time_as_integer(now) == mytimer_t(now \div 1000, now % 1000)

\* get_adjusted_time(): the milliseconds a mytimer_t stands for.
get_adjusted_time(the_time) == the_time.seconds * 1000 + the_time.milliseconds

\* operator+ of mytimer_t.
operator_plus(left, right) ==
    LET seconds == left.seconds + right.seconds
        milliseconds == left.milliseconds + right.milliseconds
    IN  IF milliseconds > 1000
        THEN mytimer_t(seconds + 1, milliseconds - 1000)
        ELSE mytimer_t(seconds, milliseconds)

\* operator- of mytimer_t.
operator_minus(left, right) ==
    LET seconds == left.seconds - right.seconds
        milliseconds == left.milliseconds - right.milliseconds
        borrowed == IF seconds > 0 /\ milliseconds < 0
                    THEN mytimer_t(seconds - 1, milliseconds + 1000)
                    ELSE mytimer_t(seconds, milliseconds)
    IN  IF borrowed.seconds < 0 /\ borrowed.milliseconds > 0
        THEN mytimer_t(borrowed.seconds + 1, borrowed.milliseconds - 1000)
        ELSE borrowed

\* ------------------------------------------------------------------ state
VARIABLES
    initialize_counter,   \* pending initialize() calls
    total_rows,           \* screen geometry
    total_columns,
    max_rows,             \* what number_of_rows()/number_of_columns() return
    max_columns,
    screen_image,         \* virtual image: bytes 0..2*rows*cols-1, or NullImage
    physical_image,       \* shadow of what refresh has written, or NullImage
    virtual_row,          \* virtual cursor (1-based)
    virtual_column,
    physical_row,         \* where refresh believes the real cursor is
    physical_column,
    box_character_map,    \* Scr box code -> curses ACS symbol
    colors_map,           \* Scr colour byte -> colour pair
    color_works,          \* start_color() succeeded
    live_blocks,          \* image arrays obtained from new[] and not yet deleted
    key_initialized,      \* initialize_key() called more recently than terminate_key()
    LINES,                \* curses: terminal size
    COLS,
    curses_mode,          \* "closed" | "prog" | "shell"
    stdscr,               \* curses: window cells 0..LINES*COLS-1
    cur_y,                \* curses: cursor (0-based)
    cur_x,
    display,              \* what the terminal shows (stdscr at the last ::refresh)
    defined_pairs,        \* curses: colour pairs 0..defined_pairs-1 are defined
    last_op,              \* the public function that ran last
    last_args,            \* its int arguments
    last_buffer,          \* the buffer or formatted text it was passed
    last_ret,             \* its return value (TRUE for void functions)
    trace,                \* the external calls it made, in order
    written,              \* stdscr cells it wrote with addch
    out_buffer,           \* the caller's buffer after read/read_text/get_cursor_position
    calls,                \* how many calls the application has made
    touched,              \* the image cells it accessed: <<row, column, width, height>>
                          \* of its loops, or <<>> when it accessed none
    int_overflow,         \* what the build makes of a signed overflow: "wrap" | "exact"
    internal_state,       \* Timer: "RESET" | "RUNNING" | "STOPPED"
    start_time,           \* Timer: <<mytimer_t>>, or <<>> while never assigned
    accumulated,          \* Timer: mytimer_t
    clock,                \* the system time of the latest reading, in milliseconds
    completed             \* milliseconds of the start-to-stop intervals completed
                          \* since the last reset()

vars ==
    <<initialize_counter, total_rows, total_columns, max_rows, max_columns,
      screen_image, physical_image, virtual_row, virtual_column,
      physical_row, physical_column, box_character_map, colors_map,
      color_works, live_blocks, key_initialized, LINES, COLS, curses_mode,
      stdscr, cur_y, cur_x, display, defined_pairs, last_op, last_args,
      last_buffer, last_ret, trace, written,
      out_buffer, calls, touched, int_overflow,
      internal_state, start_time, accumulated, clock, completed>>

\* The Timer object, the system clock and the intervals it has timed.
timer_vars == <<internal_state, start_time, accumulated, clock, completed>>

\* The program's own data (everything but the terminal and the history).
program_vars ==
    <<initialize_counter, total_rows, total_columns, max_rows, max_columns,
      screen_image, physical_image, virtual_row, virtual_column,
      physical_row, physical_column, box_character_map, colors_map,
      color_works, live_blocks, key_initialized>>

terminal_vars ==
    <<LINES, COLS, curses_mode, stdscr, cur_y, cur_x, display, defined_pairs>>

\* A null image pointer.
NullImage == EmptyMap

\* ------------------------------------------------------- external calls
\* One external call: its name, up to two int arguments, and addch's glyph.
Cmd(name, a, b, ch) == [cmd |-> name, a |-> a, b |-> b, ch |-> ch]
Call(name) == Cmd(name, 0, 0, BlankCh)
Move(y, x) == Cmd("move", y, x, BlankCh)
AddCh(ch) == Cmd("addch", 0, 0, ch)

\* The calls that reach the terminal through curses.
TerminalCmds ==
    {"initscr", "start_color", "init_pair", "werase", "move", "addch",
     "refresh", "endwin", "raw", "noecho", "nonl", "intrflush", "keypad",
     "reset_shell_mode", "exit_ca_mode", "enter_ca_mode", "reset_prog_mode"}

\* curses' state as one record.
Terminal(lines, cols, mode, scr, y, x, disp, pairs, wr) ==
    [lines |-> lines, cols |-> cols, mode |-> mode, scr |-> scr,
     y |-> y, x |-> x, disp |-> disp, pairs |-> pairs, wr |-> wr]

\* curses' effect of one call.  addch stores at the cursor and advances it,
\* wrapping to the next line; at the lower right corner the cursor stays.
ApplyCmd(t, c) ==
    CASE c.cmd = "initscr" ->
            [t EXCEPT !.lines = c.a, !.cols = c.b, !.mode = "prog",
                      !.scr = [i \in 0..(c.a * c.b - 1) |-> BlankCh],
                      !.y = 0, !.x = 0, !.pairs = 1]
      [] c.cmd = "init_pair" ->
            [t EXCEPT !.pairs = IF c.b + 1 > t.pairs THEN c.b + 1 ELSE t.pairs]
      [] c.cmd = "werase" ->
            [t EXCEPT !.scr = [i \in DOMAIN t.scr |-> BlankCh], !.y = 0, !.x = 0]
      [] c.cmd = "move" ->
            IF c.a \in 0..(t.lines - 1) /\ c.b \in 0..(t.cols - 1)
            THEN [t EXCEPT !.y = c.a, !.x = c.b]
            ELSE t
      [] c.cmd = "addch" ->
            LET at == t.y * t.cols + t.x
                nx == IF t.x + 1 < t.cols THEN t.x + 1
                      ELSE IF t.y + 1 < t.lines THEN 0 ELSE t.x
                ny == IF t.x + 1 < t.cols THEN t.y
                      ELSE IF t.y + 1 < t.lines THEN t.y + 1 ELSE t.y
            IN  [t EXCEPT !.scr = [t.scr EXCEPT ![at] = c.ch],
                          !.y = ny, !.x = nx, !.wr = t.wr \cup {at}]
      [] c.cmd = "refresh" -> [t EXCEPT !.disp = t.scr]
      [] c.cmd = "endwin" -> [t EXCEPT !.mode = "closed"]
      [] c.cmd \in {"reset_shell_mode", "exit_ca_mode"} -> [t EXCEPT !.mode = "shell"]
      [] c.cmd \in {"enter_ca_mode", "reset_prog_mode"} -> [t EXCEPT !.mode = "prog"]
      [] OTHER -> t

RECURSIVE ApplyCmds(_, _)
ApplyCmds(t, cmds) ==
    IF cmds = <<>> THEN t ELSE ApplyCmds(ApplyCmd(t, Head(cmds)), Tail(cmds))

\* The terminal after the handler's calls, as the next state.
RunTerminal(cmds) ==
    LET t == ApplyCmds(Terminal(LINES, COLS, curses_mode, stdscr, cur_y, cur_x,
                                display, defined_pairs, {}), cmds)
    IN  /\ LINES' = t.lines
        /\ COLS' = t.cols
        /\ curses_mode' = t.mode
        /\ stdscr' = t.scr
        /\ cur_y' = t.y
        /\ cur_x' = t.x
        /\ display' = t.disp
        /\ defined_pairs' = t.pairs
        /\ written' = t.wr
        /\ trace' = cmds

\* ---------------------------------------------------------- image helpers
\* Offset of cell (row, column) in an image of the given width.
Offset(row, column, columns) == (row - 1) * 2 * columns + (column - 1) * 2

\* An image filled with (ch, at).
FilledImage(rows, columns, ch, at) ==
    [i \in 0..(rows * 2 * columns - 1) |-> IF i % 2 = 0 THEN ch ELSE at]

\* ------------------------------------------------------- region clamping
\* The value of the int expression a + b - 1 (evaluated left to right,
\* a >= 1, b >= 1) in a build whose int arithmetic wraps around.
wrapped_extent(a, b) ==
    IF b <= INT_MAX - a THEN a + b - 1
    ELSE LET s == (a - 1) - (INT_MAX - b)      \* a + b = INT_MIN + s, wrapped
         IN  IF s = 0 THEN INT_MAX ELSE INT_MIN + (s - 1)

\* The test a + b - 1 > limit of adjust_dimensions.  When a + b exceeds
\* INT_MAX the behaviour is undefined: a build either wraps around or,
\* having assumed that no overflow happens, gives the exact answer.
extent_exceeds(a, b, limit) ==
    IF b <= INT_MAX - a THEN a + b - 1 > limit
    ELSE IF int_overflow = "wrap" THEN wrapped_extent(a, b) > limit
    ELSE TRUE

\* A clamp that takes rows and columns to count from 0.  C12 must tell it
\* from adjust_dimensions.
adjust_zero_based(row, column, width, height, rows, columns) ==
    LET r1 == IF row < 0 THEN 0 ELSE row
        r  == IF r1 > rows - 1 THEN rows - 1 ELSE r1
        c1 == IF column < 0 THEN 0 ELSE column
        c  == IF c1 > columns - 1 THEN columns - 1 ELSE c1
        h1 == IF height <= 0 THEN 1 ELSE height
        w1 == IF width <= 0 THEN 1 ELSE width
        h  == IF h1 > rows - r THEN rows - r ELSE h1
        w  == IF w1 > columns - c THEN columns - c ELSE w1
    IN  <<r, c, w, h>>

\* adjust_dimensions: the region <<r, c, w, h>> forced onto the screen.
adjust_dimensions(row, column, width, height, rows, columns) ==
    LET r1 == IF row < 1 THEN 1 ELSE row
        r  == IF r1 > rows THEN rows ELSE r1
        c1 == IF column < 1 THEN 1 ELSE column
        c  == IF c1 > columns THEN columns ELSE c1
        h1 == IF height <= 0 THEN 1 ELSE height
        w1 == IF width <= 0 THEN 1 ELSE width
        h  == IF extent_exceeds(r, h1, rows) THEN rows - r + 1 ELSE h1
        w  == IF extent_exceeds(c, w1, columns) THEN columns - c + 1 ELSE w1
    IN  <<r, c, w, h>>

\* ------------------------------------------------- screen buffer functions
\* Each takes the image and the caller's arguments and gives the image (or
\* the caller's buffer) the function leaves.  Buffers and texts are
\* sequences of bytes; buffer[k + 1] is the C buffer[k].

\* memcpy(destination image at offset to, source bytes, n)
CopyInto(img, to, src, from, n) ==
    [i \in DOMAIN img |->
        IF i >= to /\ i < to + n THEN src[from + (i - to)] ELSE img[i]]

RECURSIVE read_rows(_, _, _, _, _, _)
read_rows(img, screen_pointer, row_length, number_of_rows, columns, buffer) ==
    IF number_of_rows = 0 THEN buffer
    ELSE read_rows(img, screen_pointer + 2 * columns, row_length,
                   number_of_rows - 1, columns,
                   buffer \o [k \in 1..row_length |-> img[screen_pointer + k - 1]])

read(img, rows, columns, row, column, width, height) ==
    LET d == adjust_dimensions(row, column, width, height, rows, columns)
    IN  read_rows(img, Offset(d[1], d[2], columns), 2 * d[3], d[4], columns, <<>>)

RECURSIVE read_text_rows(_, _, _, _, _, _)
read_text_rows(img, screen_pointer, width, height, columns, buffer) ==
    IF height <= 0 THEN buffer
    ELSE read_text_rows(img, screen_pointer + 2 * columns, width, height - 1,
                        columns,
                        buffer \o [k \in 1..width |-> img[screen_pointer + 2 * (k - 1)]])

read_text(img, rows, columns, row, column, width, height) ==
    LET d == adjust_dimensions(row, column, width, height, rows, columns)
    IN  read_text_rows(img, Offset(d[1], d[2], columns), d[3], d[4], columns, <<>>)

RECURSIVE write_rows(_, _, _, _, _, _, _)
write_rows(img, screen_pointer, row_length, number_of_rows, columns, buffer, at) ==
    IF number_of_rows = 0 THEN img
    ELSE write_rows([i \in DOMAIN img |->
                        IF i >= screen_pointer /\ i < screen_pointer + row_length
                        THEN buffer[at + (i - screen_pointer) + 1] ELSE img[i]],
                    screen_pointer + 2 * columns, row_length,
                    number_of_rows - 1, columns, buffer, at + row_length)

\* A write that stores the attribute bytes as print and clear do, through
\* convert_attribute.  C10 must tell it from write.
write_converted(img, rows, columns, row, column, width, height, buffer) ==
    LET d == adjust_dimensions(row, column, width, height, rows, columns)
        b == [k \in DOMAIN buffer |->
                IF k % 2 = 0
                THEN IntToChar(convert_attribute(color_works, buffer[k]))
                ELSE buffer[k]]
    IN  write_rows(img, Offset(d[1], d[2], columns), 2 * d[3], d[4], columns,
                   b, 0)

write(img, rows, columns, row, column, width, height, buffer) ==
    LET d == adjust_dimensions(row, column, width, height, rows, columns)
    IN  write_rows(img, Offset(d[1], d[2], columns), 2 * d[3], d[4], columns,
                   buffer, 0)

RECURSIVE write_text_rows(_, _, _, _, _, _, _)
write_text_rows(img, screen_pointer, width, height, columns, buffer, at) ==
    IF height <= 0 THEN img
    ELSE write_text_rows(
            [i \in DOMAIN img |->
                IF i >= screen_pointer /\ i < screen_pointer + 2 * width
                   /\ (i - screen_pointer) % 2 = 0
                THEN buffer[at + (i - screen_pointer) \div 2 + 1] ELSE img[i]],
            screen_pointer + 2 * columns, width, height - 1, columns, buffer,
            at + width)

write_text(img, rows, columns, row, column, width, height, buffer) ==
    LET d == adjust_dimensions(row, column, width, height, rows, columns)
    IN  write_text_rows(img, Offset(d[1], d[2], columns), d[3], d[4], columns,
                        buffer, 0)

\* The number of characters the while (*string && width--) loop stores.
print_length(string, width) == IF Len(string) < width THEN Len(string) ELSE width

print(img, rows, columns, color_ok, row, column, count, attribute, string) ==
    LET d == adjust_dimensions(row, column, count, 1, rows, columns)
        a == convert_attribute(color_ok, attribute)
        screen_pointer == Offset(d[1], d[2], columns)
        n == print_length(string, d[3])
    IN  [i \in DOMAIN img |->
            IF i >= screen_pointer /\ i < screen_pointer + 2 * n
            THEN IF (i - screen_pointer) % 2 = 0
                 THEN string[(i - screen_pointer) \div 2 + 1]
                 ELSE IntToChar(a)
            ELSE img[i]]

print_text_packed(img, rows, columns, row, column, count, string) ==
    LET d == adjust_dimensions(row, column, count, 1, rows, columns)
        screen_pointer == Offset(d[1], d[2], columns)
        n == print_length(string, d[3])
    IN  [i \in DOMAIN img |->
            IF i >= screen_pointer /\ i < screen_pointer + n
            THEN string[i - screen_pointer + 1]
            ELSE img[i]]

print_text(img, rows, columns, row, column, count, string) ==
    LET d == adjust_dimensions(row, column, count, 1, rows, columns)
        screen_pointer == Offset(d[1], d[2], columns)
        n == print_length(string, d[3])
    IN  [i \in DOMAIN img |->
            IF i >= screen_pointer /\ i < screen_pointer + 2 * n
               /\ (i - screen_pointer) % 2 = 0
            THEN string[(i - screen_pointer) \div 2 + 1]
            ELSE img[i]]

\* A test that takes the whole of the region's rows.  C39 must tell it from
\* InRegion.
in_rows_of_region(i, d, columns) ==
    LET ri == i \div (2 * columns)
    IN  ri >= d[1] - 1 /\ ri < d[1] - 1 + d[4]

\* Whether image byte i lies in the rows and columns of region d.
InRegion(i, d, columns) ==
    LET ri == i \div (2 * columns)
        ci == (i % (2 * columns)) \div 2
    IN  /\ ri >= d[1] - 1 /\ ri < d[1] - 1 + d[4]
        /\ ci >= d[2] - 1 /\ ci < d[2] - 1 + d[3]

clear_unconverted(img, rows, columns, color_ok, row, column, width, height, attribute) ==
    LET d == adjust_dimensions(row, column, width, height, rows, columns)
    IN  [i \in DOMAIN img |->
            IF InRegion(i, d, columns)
            THEN IF i % 2 = 0 THEN SPACE ELSE IntToChar(attribute)
            ELSE img[i]]

clear(img, rows, columns, color_ok, row, column, width, height, attribute) ==
    LET d == adjust_dimensions(row, column, width, height, rows, columns)
        a == convert_attribute(color_ok, attribute)
    IN  [i \in DOMAIN img |->
            IF InRegion(i, d, columns)
            THEN IF i % 2 = 0 THEN SPACE ELSE IntToChar(a)
            ELSE img[i]]

set_color_and_blank(img, rows, columns, color_ok, row, column, width, height, attribute) ==
    LET d == adjust_dimensions(row, column, width, height, rows, columns)
        a == convert_attribute(color_ok, attribute)
    IN  [i \in DOMAIN img |->
            IF InRegion(i, d, columns)
            THEN IF i % 2 = 0 THEN SPACE ELSE IntToChar(a)
            ELSE img[i]]

set_color(img, rows, columns, color_ok, row, column, width, height, attribute) ==
    LET d == adjust_dimensions(row, column, width, height, rows, columns)
        a == convert_attribute(color_ok, attribute)
    IN  [i \in DOMAIN img |->
            IF InRegion(i, d, columns) /\ i % 2 = 1 THEN IntToChar(a) ELSE img[i]]

\* A copy loop that stops after its first row.  C15 must tell it from
\* scroll_rows.
scroll_first_row(img, screen_pointer, source_pointer, n, step, left) ==
    IF left <= 0 THEN img
    ELSE CopyInto(img, screen_pointer, img, source_pointer, n)

\* scroll's copy loops: `left` rows remain to be copied, `step` is
\* +2*total_columns going down the image (UP) or -2*total_columns (DOWN).
RECURSIVE scroll_rows(_, _, _, _, _, _)
scroll_rows(img, screen_pointer, source_pointer, n, step, left) ==
    IF left <= 0 THEN img
    ELSE scroll_rows(CopyInto(img, screen_pointer, img, source_pointer, n),
                     screen_pointer + step, source_pointer + step, n, step,
                     left - 1)

scroll(img, rows, columns, color_ok, direction, row, column, width, height, number_of_rows, attribute) ==
    IF number_of_rows <= 0 THEN img
    ELSE
    LET d == adjust_dimensions(row, column, width, height, rows, columns)
        a == convert_attribute(color_ok, attribute)
    IN  IF number_of_rows >= d[4]
        THEN clear(img, rows, columns, color_ok, d[1], d[2], d[3], d[4], a)
        ELSE IF direction = "UP"
        THEN LET screen_pointer == Offset(d[1], d[2], columns)
                 moved == scroll_rows(img, screen_pointer,
                                      screen_pointer + number_of_rows * 2 * columns,
                                      2 * d[3], 2 * columns, d[4] - number_of_rows)
             IN  clear(moved, rows, columns, color_ok,
                       d[1] + (d[4] - number_of_rows), d[2], d[3], number_of_rows, a)
        ELSE LET screen_pointer == Offset(d[1] + d[4] - 1, d[2], columns)
                 moved == scroll_rows(img, screen_pointer,
                                      screen_pointer - number_of_rows * 2 * columns,
                                      2 * d[3], -(2 * columns), d[4] - number_of_rows)
             IN  clear(moved, rows, columns, color_ok, d[1], d[2], d[3],
                       number_of_rows, a)

\* set_cursor_position's clipping of one coordinate.
clip_from_below(v, limit) == IF v < 1 THEN 1 ELSE v

clip(v, limit) == IF v < 1 THEN (IF 1 > limit THEN limit ELSE 1)
                  ELSE IF v > limit THEN limit ELSE v

\* ------------------------------------------------------- curses backend
\* The glyph redraw/refresh hand to addch for the cell at image offset i.
CellGlyph(img, i) ==
    new_character(img[i], img[i + 1], box_character_map, colors_map, color_works)

\* redraw's inner loop over one row: move to its start, addch every column.
redraw_row(img, row_count) ==
    <<Move(row_count - 1, 0)>> \o
    [column_count \in 1..total_columns |->
        AddCh(CellGlyph(img, Offset(row_count, column_count, total_columns)))]

RECURSIVE redraw_rows(_, _)
redraw_rows(img, row_count) ==
    IF row_count > total_rows THEN <<>>
    ELSE redraw_row(img, row_count) \o redraw_rows(img, row_count + 1)

\* A redraw that trusts the shadow image: it writes only the cells in which
\* img differs from physical_image.  C3 must tell it from redraw.
redraw_differences(img, vrow, vcol) ==
    LET all  == [k \in 1..(total_rows * total_columns) |-> k - 1]
        same(k) == /\ img[2 * k] = physical_image[2 * k]
                   /\ img[2 * k + 1] = physical_image[2 * k + 1]
        diff == SelectSeq(all, LAMBDA k : ~same(k))
    IN  [j \in 1..(2 * Len(diff)) |->
            LET k == diff[(j + 1) \div 2]
            IN  IF j % 2 = 1
                THEN Move(k \div total_columns, k % total_columns)
                ELSE AddCh(CellGlyph(img, 2 * k))]
        \o <<Move(vrow - 1, vcol - 1), Call("refresh")>>

\* redraw(): the calls it makes for image img and virtual cursor (vrow, vcol).
\* It assigns none of the program's variables.
redraw(img, vrow, vcol) ==
    redraw_rows(img, 1) \o <<Move(vrow - 1, vcol - 1), Call("refresh")>>

\* A test that compares the characters and not the attributes.  C1 must
\* tell it from already_correct.
same_character(img, phys, array_index) ==
    img[array_index] = phys[array_index]

\* refresh's test "this character is already what we want".
already_correct(img, phys, array_index) ==
    /\ img[array_index] = phys[array_index]
    /\ img[array_index + 1] = phys[array_index + 1]

\* A body that positions the cursor before every write.  C34 must tell it
\* from refresh_cell.
refresh_cell_always_moving(img, st, row_count, column_count, array_index) ==
    [phys |-> [st.phys EXCEPT ![array_index] = img[array_index],
                              ![array_index + 1] = img[array_index + 1]],
     prow |-> row_count,
     pcol |-> column_count + 1,
     out  |-> st.out
              \o <<Move(row_count - 1, column_count - 1)>>
              \o <<AddCh(CellGlyph(img, array_index))>>]

\* refresh's body for one cell that differs.  st carries physical_image,
\* physical_row, physical_column and the calls made so far.
refresh_cell(img, st, row_count, column_count, array_index) ==
    LET moved == row_count # st.prow \/ column_count # st.pcol
        prow  == IF moved THEN row_count ELSE st.prow
        pcol  == IF moved THEN column_count ELSE st.pcol
    IN  [phys |-> [st.phys EXCEPT ![array_index] = img[array_index],
                                  ![array_index + 1] = img[array_index + 1]],
         prow |-> prow,
         pcol |-> pcol + 1,
         out  |-> st.out
                  \o (IF moved THEN <<Move(row_count - 1, column_count - 1)>>
                      ELSE <<>>)
                  \o <<AddCh(CellGlyph(img, array_index))>>]

\* refresh's double loop, cell k = (row_count - 1) * total_columns + column_count - 1.
RECURSIVE refresh_loop(_, _, _)
refresh_loop(img, st, k) ==
    IF k >= total_rows * total_columns THEN st
    ELSE LET row_count    == (k \div total_columns) + 1
             column_count == (k % total_columns) + 1
             array_index  == (row_count - 1) * 2 * total_columns
                             + 2 * (column_count - 1)
         IN  IF already_correct(img, st.phys, array_index)
             THEN refresh_loop(img, st, k + 1)
             ELSE refresh_loop(img,
                               refresh_cell(img, st, row_count, column_count,
                                            array_index),
                               k + 1)

\* refresh(): the shadow image, the tracked cursor and the calls it leaves.
refresh(img, phys, prow, pcol, vrow, vcol) ==
    LET st == refresh_loop(img, [phys |-> phys, prow |-> prow, pcol |-> pcol,
                                 out |-> <<>>], 0)
    IN  [phys |-> st.phys, prow |-> vrow, pcol |-> vcol,
         out  |-> st.out \o <<Move(vrow - 1, vcol - 1), Call("refresh")>>]

\* A clear_screen that does not erase the curses window.  C5 must tell it
\* from clear_screen_calls.
home_and_refresh == <<Move(0, 0), Call("refresh")>>

\* clear_screen(): its calls; the images and cursors it leaves are in the
\* action below.
clear_screen_calls == <<Call("werase"), Move(0, 0), Call("refresh")>>

\* initialize_colors(): the calls it makes.  The init_pair loop is one
\* entry, init_pair(i, ...) for i from a to b.
initialize_colors_calls(start_color_ok, pairs) ==
    <<Cmd("start_color", 0, 0, BlankCh)>> \o
    (IF start_color_ok
     THEN LET max_colors == IF pairs > max_color_pairs THEN max_color_pairs ELSE pairs
          IN  <<Cmd("init_pair", 1, max_colors - 1, BlankCh)>>
     ELSE <<>>)

insert_nothing(map, items) == map

\* std::map::insert of a range: keys already present keep their value.
MapInsert(map, items) ==
    [k \in DOMAIN map \cup DOMAIN items |->
        IF k \in DOMAIN map THEN map[k] ELSE items[k]]

\* ------------------------------------------------ direct-console backend
\* The build for the Windows console keeps no shadow image: redraw copies
\* every cell of the screen image to the console and puts the console cursor
\* at the virtual cursor.  A console cell is the pair (AsciiChar, Attributes).
console_redraw(img, rows, columns, vrow, vcol) ==
    [image |-> [cc \in 0..(rows * columns - 1) |-> <<img[2 * cc], img[2 * cc + 1]>>],
     x |-> vcol - 1,
     y |-> vrow - 1]

console_refresh(img, rows, columns, vrow, vcol) ==
    console_redraw(img, rows, columns, vrow, vcol)

\* clear, set_cursor_position(1, 1), refresh; convert_attribute is the
\* identity in this build.
console_clear_screen(img, rows, columns) ==
    LET cleared == clear(img, rows, columns, TRUE, 1, 1, columns, rows,
                         BitOr(WHITE, REV_BLACK))
        vrow == clip(1, rows)
        vcol == clip(1, columns)
    IN  [img |-> cleared, vrow |-> vrow, vcol |-> vcol,
         console |-> console_refresh(cleared, rows, columns, vrow, vcol)]

\* ------------------------------------------------------------------- Init
\* The statics of screen.cpp before any call; curses not started.
Init ==
    /\ initialize_counter = 0
    /\ total_rows = total_rows_default
    /\ total_columns = total_columns_default
    /\ max_rows = total_rows_default
    /\ max_columns = total_columns_default
    /\ screen_image = NullImage
    /\ physical_image = NullImage
    /\ virtual_row = 1
    /\ virtual_column = 1
    /\ physical_row = 1
    /\ physical_column = 1
    /\ box_character_map = EmptyMap
    /\ colors_map = EmptyMap
    /\ color_works = FALSE
    /\ live_blocks = 0
    /\ key_initialized = FALSE
    /\ LINES = 0
    /\ COLS = 0
    /\ curses_mode = "closed"
    /\ stdscr = EmptyMap
    /\ cur_y = 0
    /\ cur_x = 0
    /\ display = EmptyMap
    /\ defined_pairs = 0
    /\ last_op = "none"
    /\ last_args = <<>>
    /\ last_buffer = <<>>
    /\ last_ret = TRUE
    /\ trace = <<>>
    /\ written = {}
    /\ out_buffer = <<>>
    /\ calls = 0
    /\ touched = <<>>
    /\ int_overflow \in {"wrap", "exact"}
    /\ internal_state = "RESET"
    /\ start_time = <<>>
    /\ accumulated = mytimer_t(0, 0)
    /\ clock = 0
    /\ completed = 0

\* ---------------------------------------------------------------- actions
\* The session is Active and Scr controls the terminal.
Active == initialize_counter > 0 /\ curses_mode = "prog"

\* What every call records about itself.
ReturnsHaving(name, args, passed, ret, buffer, extent) ==
    /\ last_op' = name
    /\ last_args' = args
    /\ last_buffer' = passed
    /\ last_ret' = ret
    /\ out_buffer' = buffer
    /\ touched' = extent
    /\ calls' = calls + 1
    /\ UNCHANGED int_overflow
    /\ UNCHANGED timer_vars

\* The return of a function that has no loop over the virtual image's
\* cells at a caller's position.
Returns(name, args, passed, ret, buffer) ==
    ReturnsHaving(name, args, passed, ret, buffer, <<>>)

\* The cells the loops of a buffer function go over: the region that
\* adjust_dimensions leaves, for print and print_text the characters
\* stored from the start position on, for a scroll by no rows nothing.
Extent(name, args, passed) ==
    IF name \in {"print", "print_text"}
    THEN LET d == adjust_dimensions(args[1], args[2], args[3], 1,
                                    total_rows, total_columns)
             n == print_length(passed, d[3])
         IN  IF n = 0 THEN <<>> ELSE <<d[1], d[2], n, 1>>
    ELSE IF name = "scroll"
    THEN IF args[6] <= 0 THEN <<>>
         ELSE adjust_dimensions(args[2], args[3], args[4], args[5],
                                total_rows, total_columns)
    ELSE adjust_dimensions(args[1], args[2], args[3], args[4],
                           total_rows, total_columns)

\* The bytes of extent e, taken row by row from its first cell on, all lie
\* in the image array.
InImage(e) ==
    IF e = <<>> THEN TRUE
    ELSE /\ e[1] >= 1 /\ e[2] >= 1 /\ e[3] >= 1 /\ e[4] >= 1
         /\ e[1] <= total_rows /\ e[4] <= total_rows
         /\ e[3] <= total_rows * total_columns
         /\ Offset(e[1] + e[4] - 1, e[2], total_columns) + 2 * e[3]
               <= 2 * total_rows * total_columns

\* An initialize that sets the session up on every call.  C8 must tell it
\* from already_initialized.
never_nested(counter) == FALSE

\* initialize's test "already initialized".
already_initialized(counter) == counter > 0

\* initialize's return value: true on every path.
initialize_return(start_color_ok) == TRUE

\* A terminate without the guard on the counter.  C7 must tell it from
\* never_initialized.
unguarded(counter) == FALSE

\* terminate's test "initialize( ) never called".
never_initialized(counter) == counter = 0

\* A terminate that shuts down on every matched call.  C6 must tell it
\* from still_pending.
shut_down_at_once(counter) == FALSE

\* terminate's test "initialize( ) called more than once", on the
\* decremented counter.
still_pending(counter) == counter # 0

\* An initialize() that calls the keyboard hook once the images exist.
\* C36 must tell it from ScrInitialize.
initialize_key_after_allocation(lines, cols, start_color_ok, pairs) ==
    /\ curses_mode # "shell"
    /\ initialize_counter < MaxInit
    /\ Returns("initialize", <<>>, <<>>, initialize_return(start_color_ok), <<>>)
    /\ IF already_initialized(initialize_counter)
       THEN /\ initialize_counter' = initialize_counter + 1
            /\ UNCHANGED <<total_rows, total_columns, max_rows, max_columns,
                           screen_image, physical_image, virtual_row,
                           virtual_column, physical_row, physical_column,
                           box_character_map, colors_map, color_works,
                           live_blocks, key_initialized>>
            /\ RunTerminal(<<>>)
       ELSE /\ key_initialized' = TRUE
            /\ box_character_map' = MapInsert(box_character_map, character_associations)
            /\ color_works' = start_color_ok
            /\ colors_map' = IF start_color_ok
                             THEN MapInsert(colors_map, color_associations)
                             ELSE colors_map
            /\ total_rows' = lines
            /\ max_rows' = lines
            /\ total_columns' = cols
            /\ max_columns' = cols
            /\ live_blocks' = live_blocks + 2
            /\ screen_image' = FilledImage(lines, cols, SPACE, BitOr(WHITE, REV_BLACK))
            /\ physical_image' = FilledImage(lines, cols, SPACE, BitOr(WHITE, REV_BLACK))
            /\ virtual_row' = 1
            /\ virtual_column' = 1
            /\ physical_row' = 1
            /\ physical_column' = 1
            /\ initialize_counter' = initialize_counter + 1
            /\ RunTerminal(<<Cmd("initscr", lines, cols, BlankCh),
                             Call("raw"), Call("noecho"), Call("nonl"),
                             Call("intrflush"), Call("keypad")>>
                           \o initialize_colors_calls(start_color_ok, pairs)
                           \o <<Call("new"), Call("new"), Call("initialize_key")>>
                           \o clear_screen_calls)

\* A terminate() that calls the keyboard hook before it frees the images.
\* C37 must tell it from ScrTerminate.
terminate_key_before_delete ==
    /\ curses_mode # "shell"
    /\ Returns("terminate", <<>>, <<>>, TRUE, <<>>)
    /\ IF never_initialized(initialize_counter)
       THEN /\ UNCHANGED program_vars
            /\ RunTerminal(<<>>)
       ELSE IF still_pending(initialize_counter - 1)
       THEN /\ initialize_counter' = initialize_counter - 1
            /\ UNCHANGED <<total_rows, total_columns, max_rows, max_columns,
                           screen_image, physical_image, virtual_row,
                           virtual_column, physical_row, physical_column,
                           box_character_map, colors_map, color_works,
                           live_blocks, key_initialized>>
            /\ RunTerminal(<<>>)
       ELSE /\ initialize_counter' = initialize_counter - 1
            /\ virtual_row' = 1
            /\ virtual_column' = 1
            /\ box_character_map' = EmptyMap
            /\ screen_image' = NullImage
            /\ physical_image' = NullImage
            /\ live_blocks' = live_blocks
                              - (IF DOMAIN screen_image # {} THEN 1 ELSE 0)
                              - (IF DOMAIN physical_image # {} THEN 1 ELSE 0)
            /\ key_initialized' = FALSE
            /\ UNCHANGED <<total_rows, total_columns, max_rows, max_columns,
                           physical_row, physical_column, colors_map, color_works>>
            /\ RunTerminal(redraw(FilledImage(total_rows, total_columns, SPACE,
                                              BitOr(WHITE, REV_BLACK)), 1, 1)
                           \o <<Call("endwin"), Call("terminate_key"),
                                Call("delete"), Call("delete")>>)

\* initialize(): lines x cols is what curses detects, start_color_ok whether
\* start_color() succeeds, pairs the COLOR_PAIRS it then reports.
ScrInitialize(lines, cols, start_color_ok, pairs) ==
    /\ curses_mode # "shell"
    /\ initialize_counter < MaxInit
    /\ Returns("initialize", <<>>, <<>>, initialize_return(start_color_ok), <<>>)
    /\ IF already_initialized(initialize_counter)
       THEN /\ initialize_counter' = initialize_counter + 1
            /\ UNCHANGED <<total_rows, total_columns, max_rows, max_columns,
                           screen_image, physical_image, virtual_row,
                           virtual_column, physical_row, physical_column,
                           box_character_map, colors_map, color_works,
                           live_blocks, key_initialized>>
            /\ RunTerminal(<<>>)
       ELSE /\ key_initialized' = TRUE
            /\ box_character_map' = MapInsert(box_character_map, character_associations)
            /\ color_works' = start_color_ok
            /\ colors_map' = IF start_color_ok
                             THEN MapInsert(colors_map, color_associations)
                             ELSE colors_map
            /\ total_rows' = lines
            /\ max_rows' = lines
            /\ total_columns' = cols
            /\ max_columns' = cols
            /\ live_blocks' = live_blocks + 2
            /\ screen_image' = FilledImage(lines, cols, SPACE, BitOr(WHITE, REV_BLACK))
            /\ physical_image' = FilledImage(lines, cols, SPACE, BitOr(WHITE, REV_BLACK))
            /\ virtual_row' = 1
            /\ virtual_column' = 1
            /\ physical_row' = 1
            /\ physical_column' = 1
            /\ initialize_counter' = initialize_counter + 1
            /\ RunTerminal(<<Call("initialize_key"), Cmd("initscr", lines, cols, BlankCh),
                             Call("raw"), Call("noecho"), Call("nonl"),
                             Call("intrflush"), Call("keypad")>>
                           \o initialize_colors_calls(start_color_ok, pairs)
                           \o <<Call("new"), Call("new")>>
                           \o clear_screen_calls)

\* terminate()
ScrTerminate ==
    /\ curses_mode # "shell"
    /\ Returns("terminate", <<>>, <<>>, TRUE, <<>>)
    /\ IF never_initialized(initialize_counter)
       THEN /\ UNCHANGED program_vars
            /\ RunTerminal(<<>>)
       ELSE IF still_pending(initialize_counter - 1)
       THEN /\ initialize_counter' = initialize_counter - 1
            /\ UNCHANGED <<total_rows, total_columns, max_rows, max_columns,
                           screen_image, physical_image, virtual_row,
                           virtual_column, physical_row, physical_column,
                           box_character_map, colors_map, color_works,
                           live_blocks, key_initialized>>
            /\ RunTerminal(<<>>)
       ELSE /\ initialize_counter' = initialize_counter - 1
            /\ virtual_row' = 1
            /\ virtual_column' = 1
            /\ box_character_map' = EmptyMap
            /\ screen_image' = NullImage
            /\ physical_image' = NullImage
            /\ live_blocks' = live_blocks
                              - (IF DOMAIN screen_image # {} THEN 1 ELSE 0)
                              - (IF DOMAIN physical_image # {} THEN 1 ELSE 0)
            /\ key_initialized' = FALSE
            /\ UNCHANGED <<total_rows, total_columns, max_rows, max_columns,
                           physical_row, physical_column, colors_map, color_works>>
            /\ RunTerminal(redraw(FilledImage(total_rows, total_columns, SPACE,
                                              BitOr(WHITE, REV_BLACK)), 1, 1)
                           \o <<Call("endwin"), Call("delete"), Call("delete"),
                                Call("terminate_key")>>)

\* A buffer function that writes through to the shadow image.  C4 must
\* tell it from BufferCall.
ImmediateCall(name, args, passed, img, buffer) ==
    /\ Active
    /\ ReturnsHaving(name, args, passed, TRUE, buffer,
                     Extent(name, args, passed))
    /\ screen_image' = img
    /\ physical_image' = img
    /\ UNCHANGED <<initialize_counter, total_rows, total_columns, max_rows,
                   max_columns, virtual_row, virtual_column,
                   physical_row, physical_column, box_character_map,
                   colors_map, color_works, live_blocks, key_initialized>>
    /\ RunTerminal(<<>>)

\* A function that only rewrites the virtual image: no other variable of
\* the program is assigned and no external call is made.  When its loops
\* leave the image array the behaviour is undefined: the extent is
\* recorded, nothing is said about the memory, and the specifications follow
\* the program no further (Within).
BufferCall(name, args, passed, img, buffer) ==
    /\ Active
    /\ LET extent == Extent(name, args, passed)
       IN  IF InImage(extent)
           THEN /\ ReturnsHaving(name, args, passed, TRUE, buffer, extent)
                /\ screen_image' = img
           ELSE /\ ReturnsHaving(name, args, passed, TRUE, <<>>, extent)
                /\ screen_image' = screen_image
    /\ UNCHANGED <<initialize_counter, total_rows, total_columns, max_rows,
                   max_columns, physical_image, virtual_row, virtual_column,
                   physical_row, physical_column, box_character_map,
                   colors_map, color_works, live_blocks, key_initialized>>
    /\ RunTerminal(<<>>)

ScrRead(r) ==
    BufferCall("read", r, <<>>, screen_image,
               read(screen_image, total_rows, total_columns, r[1], r[2], r[3], r[4]))

ScrReadText(r) ==
    BufferCall("read_text", r, <<>>, screen_image,
               read_text(screen_image, total_rows, total_columns,
                         r[1], r[2], r[3], r[4]))

\* The caller's buffer holds 2*width*height bytes, so width, height >= 1.
ScrWrite(r, buffer) ==
    /\ r[3] >= 1 /\ r[4] >= 1
    /\ BufferCall("write", r, buffer,
                  write(screen_image, total_rows, total_columns,
                        r[1], r[2], r[3], r[4], buffer), <<>>)

ScrWriteText(r, buffer) ==
    /\ r[3] >= 1 /\ r[4] >= 1
    /\ BufferCall("write_text", r, buffer,
                  write_text(screen_image, total_rows, total_columns,
                             r[1], r[2], r[3], r[4], buffer), <<>>)

ScrPrint(row, column, count, attribute, string) ==
    BufferCall("print", <<row, column, count, attribute>>, string,
               print(screen_image, total_rows, total_columns, color_works,
                     row, column, count, attribute, string), <<>>)

ScrPrintText(row, column, count, string) ==
    BufferCall("print_text", <<row, column, count>>, string,
               print_text(screen_image, total_rows, total_columns,
                          row, column, count, string), <<>>)

ScrClear(r, attribute) ==
    BufferCall("clear", r \o <<attribute>>, <<>>,
               clear(screen_image, total_rows, total_columns, color_works,
                     r[1], r[2], r[3], r[4], attribute), <<>>)

ScrSetColor(r, attribute) ==
    BufferCall("set_color", r \o <<attribute>>, <<>>,
               set_color(screen_image, total_rows, total_columns, color_works,
                         r[1], r[2], r[3], r[4], attribute), <<>>)

ScrScroll(direction, r, number_of_rows, attribute) ==
    BufferCall("scroll",
               <<IF direction = "UP" THEN 0 ELSE 1>> \o r
               \o <<number_of_rows, attribute>>, <<>>,
               scroll(screen_image, total_rows, total_columns, color_works,
                      direction, r[1], r[2], r[3], r[4], number_of_rows,
                      attribute), <<>>)

ScrSetCursorPosition(row, column) ==
    /\ Active
    /\ Returns("set_cursor_position", <<row, column>>, <<>>, TRUE, <<>>)
    /\ virtual_row' = clip(row, total_rows)
    /\ virtual_column' = clip(column, total_columns)
    /\ UNCHANGED <<initialize_counter, total_rows, total_columns, max_rows,
                   max_columns, screen_image, physical_image, physical_row,
                   physical_column, box_character_map, colors_map,
                   color_works, live_blocks, key_initialized>>
    /\ RunTerminal(<<>>)

ScrGetCursorPosition ==
    /\ Active
    /\ Returns("get_cursor_position", <<>>, <<>>, TRUE,
               <<virtual_row, virtual_column>>)
    /\ UNCHANGED program_vars
    /\ RunTerminal(<<>>)

ScrClearScreen ==
    /\ Active
    /\ Returns("clear_screen", <<>>, <<>>, TRUE, <<>>)
    /\ screen_image' = FilledImage(total_rows, total_columns, SPACE,
                                   BitOr(WHITE, REV_BLACK))
    /\ physical_image' = FilledImage(total_rows, total_columns, SPACE,
                                     BitOr(WHITE, REV_BLACK))
    /\ virtual_row' = 1
    /\ virtual_column' = 1
    /\ physical_row' = 1
    /\ physical_column' = 1
    /\ UNCHANGED <<initialize_counter, total_rows, total_columns, max_rows,
                   max_columns, box_character_map, colors_map, color_works,
                   live_blocks, key_initialized>>
    /\ RunTerminal(clear_screen_calls)

ScrRedraw ==
    /\ Active
    /\ Returns("redraw", <<>>, <<>>, TRUE, <<>>)
    /\ UNCHANGED program_vars
    /\ RunTerminal(redraw(screen_image, virtual_row, virtual_column))

ScrRefresh ==
    /\ Active
    /\ Returns("refresh", <<>>, <<>>, TRUE, <<>>)
    /\ LET st == refresh(screen_image, physical_image, physical_row,
                         physical_column, virtual_row, virtual_column)
       IN  /\ physical_image' = st.phys
           /\ physical_row' = st.prow
           /\ physical_column' = st.pcol
           /\ RunTerminal(st.out)
    /\ UNCHANGED <<initialize_counter, total_rows, total_columns, max_rows,
                   max_columns, screen_image, virtual_row, virtual_column,
                   box_character_map, colors_map, color_works, live_blocks,
                   key_initialized>>

off_and_home ==
    /\ Active
    /\ Returns("off", <<>>, <<>>, TRUE, <<>>)
    /\ virtual_row' = 1
    /\ virtual_column' = 1
    /\ UNCHANGED <<initialize_counter, total_rows, total_columns, max_rows,
                   max_columns, screen_image, physical_image, physical_row,
                   physical_column, box_character_map, colors_map,
                   color_works, live_blocks, key_initialized>>
    /\ RunTerminal(<<Call("reset_shell_mode"), Call("exit_ca_mode")>>)

ScrOff ==
    /\ Active
    /\ Returns("off", <<>>, <<>>, TRUE, <<>>)
    /\ UNCHANGED program_vars
    /\ RunTerminal(<<Call("reset_shell_mode"), Call("exit_ca_mode")>>)

on_without_prog_mode ==
    /\ initialize_counter > 0
    /\ curses_mode = "shell"
    /\ Returns("on", <<>>, <<>>, TRUE, <<>>)
    /\ UNCHANGED program_vars
    /\ RunTerminal(<<Call("refresh")>>)

ScrOn ==
    /\ initialize_counter > 0
    /\ curses_mode = "shell"
    /\ Returns("on", <<>>, <<>>, TRUE, <<>>)
    /\ UNCHANGED program_vars
    /\ RunTerminal(<<Call("enter_ca_mode"), Call("reset_prog_mode"),
                     Call("refresh")>>)

\* adjust_dimensions(r, c, w, h): the caller's four ints after the call.
\* It reads total_rows and total_columns and assigns nothing else.
ScrReverseAttribute(attribute) ==
    /\ Returns("reverse_attribute", <<attribute>>, <<>>, TRUE,
               <<reverse_attribute(attribute)>>)
    /\ UNCHANGED program_vars
    /\ RunTerminal(<<>>)

ScrConvertAttribute(attribute) ==
    /\ Returns("convert_attribute", <<attribute>>, <<>>, TRUE,
               <<convert_attribute(color_works, attribute)>>)
    /\ UNCHANGED program_vars
    /\ RunTerminal(<<>>)

ScrGetBoxCharacters(ascii_boxes, the_type) ==
    /\ \E glyphs \in get_box_characters(ascii_boxes, the_type) :
          Returns("get_box_characters",
                  <<IF ascii_boxes THEN 1 ELSE 0, the_type>>, <<>>, TRUE, glyphs)
    /\ UNCHANGED program_vars
    /\ RunTerminal(<<>>)

ScrAdjustDimensions(r, c, w, h) ==
    /\ Returns("adjust_dimensions", <<r, c, w, h>>, <<>>, TRUE,
               adjust_dimensions(r, c, w, h, total_rows, total_columns))
    /\ UNCHANGED program_vars
    /\ RunTerminal(<<>>)

\* ------------------------------------------------------------------ inputs
\* Terminal sizes initscr may report: the smallest and the largest explored.
Geometries == {<<1, 1>>, <<MaxRows, MaxCols>>}

\* COLOR_PAIRS values a terminal may offer (fewer than, and more than, the cap).
ColorPairChoices == {8, 256}

\* A caller's buffer for write: (character, attribute) pairs ('A', REV_GREEN).
write_buffer(width, height) ==
    [k \in 1..(2 * width * height) |-> IF k % 2 = 1 THEN 65 ELSE REV_GREEN]

\* A caller's buffer for write_text: the double-line horizontal box glyph.
write_text_buffer(width, height) == [k \in 1..(width * height) |-> 205]

\* Region arguments of Spec: the first cell, a region hanging off the lower
\* right corner, the whole screen, and a degenerate region off the screen.
FirstCell == <<1, 1, 1, 1>>
LastCell == <<MaxRows, MaxCols, 2, 2>>
WholeScreen == <<1, 1, MaxCols, MaxRows>>
OffScreen == <<0, 0, 0, 0>>

\* ------------------------------------------------------------ specification
\* The application's next call, with the arguments explored.
\* How far the specifications follow the program: limit calls deep, and
\* not past an access outside the image array.
Within(limit) == calls < limit /\ InImage(touched)

Next ==
    \/ /\ Within(MaxCalls)
       /\ initialize_counter = 0
       /\ \E g \in Geometries, ok \in BOOLEAN, pairs \in ColorPairChoices :
             ScrInitialize(g[1], g[2], ok, pairs)
    \/ /\ Within(MaxCalls)
       /\ initialize_counter > 0
       /\ ScrInitialize(LINES, COLS, color_works, defined_pairs)
    \/ Within(MaxCalls) /\ ScrTerminate
    \/ Within(MaxCalls) /\ \E r \in {WholeScreen, LastCell} : ScrRead(r)
    \/ Within(MaxCalls) /\ \E r \in {WholeScreen} : ScrReadText(r)
    \/ Within(MaxCalls)
       /\ \E r \in {FirstCell, LastCell} : ScrWrite(r, write_buffer(r[3], r[4]))
    \/ Within(MaxCalls)
       /\ \E r \in {WholeScreen} : ScrWriteText(r, write_text_buffer(r[3], r[4]))
    \/ Within(MaxCalls)
       /\ \E p \in {<<1, 1>>, <<MaxRows, MaxCols>>} :
             ScrPrint(p[1], p[2], MaxCols + 1, REV_GREEN, <<65, 65>>)
    \/ Within(MaxCalls) /\ \E p \in {<<1, 1>>} : ScrPrintText(p[1], p[2], 1, <<65, 65>>)
    \/ Within(MaxCalls) /\ \E r \in {WholeScreen, OffScreen} : ScrClear(r, REV_GREEN)
    \/ Within(MaxCalls) /\ \E r \in {FirstCell} : ScrSetColor(r, BitOr(BLINK, GREEN))
    \/ Within(MaxCalls)
       /\ \E d \in {"UP", "DOWN"} : ScrScroll(d, WholeScreen, 1, REV_GREEN)
    \/ Within(MaxCalls)
       /\ \E p \in {<<0, 0>>, <<1, 2>>, <<MaxRows + 1, MaxCols + 1>>} :
             ScrSetCursorPosition(p[1], p[2])
    \/ Within(MaxCalls) /\ ScrGetCursorPosition
    \/ Within(MaxCalls) /\ ScrClearScreen
    \/ Within(MaxCalls) /\ ScrRedraw
    \/ Within(MaxCalls) /\ ScrRefresh
    \/ Within(MaxCalls) /\ ScrOff
    \/ Within(MaxCalls) /\ ScrOn

Spec == Init /\ [][Next]_vars

\* ------------------------------------------- specification of the buffer
\* The screen buffer functions on their own, with every region that starts
\* on the largest screen and buffers whose bytes all differ.
MaxBufCalls == 3

\* Regions <<row, column, width, height>>: those that fit the screen and
\* those that hang off its right or lower edge.
Regions ==
    {<<row, column, width, height>> :
        row \in 1..MaxRows, column \in 1..MaxCols,
        width \in 1..MaxCols, height \in 1..MaxRows}

\* A caller's buffer of n bytes, no two neighbours alike; the seeds give
\* attribute bytes with and without BLINK, BRIGHT and colour bits.
Pattern(seed, n) == [k \in 1..n |-> (seed + 37 * k) % 256]
Seeds == {3, 200}

\* Region arguments that need clamping: off the screen at the upper left,
\* hanging off the lower right, of no size, and with a width or a height
\* at the end of int.
OddRegions ==
    {OffScreen, LastCell, <<1, 1, 0, -1>>, <<1, 2, INT_MAX, 1>>,
     <<2, 1, 1, INT_MAX>>, <<INT_MAX, INT_MAX, INT_MAX, INT_MAX>>}

\* Formatted texts: empty, one character, and longer than a row.
Texts == {<<>>, <<88>>, [k \in 1..(MaxCols + 2) |-> 64 + k]}

\* Counts for print and print_text: none, one, more than a row, and the
\* largest that is still a positive int.
Counts == {0, 1, MaxCols + 1, INT_MAX}

\* Attributes: a colour that the monochrome conversion changes, and one
\* with the blink bit.
Attributes == {REV_GREEN, BitOr(BLINK, GREEN)}

NextBuf ==
    \/ /\ Within(MaxBufCalls)
       /\ initialize_counter = 0
       /\ \E g \in Geometries, ok \in BOOLEAN :
             ScrInitialize(g[1], g[2], ok, max_color_pairs)
    \/ /\ Within(MaxBufCalls)
       /\ \E r \in Regions, seed \in Seeds :
             ScrWrite(r, Pattern(seed, 2 * r[3] * r[4]))
    \/ Within(MaxBufCalls) /\ \E r \in Regions \cup OddRegions : ScrRead(r)
    \/ Within(MaxBufCalls) /\ \E r \in {WholeScreen} \cup OddRegions : ScrClear(r, REV_GREEN)
    \/ /\ Within(MaxBufCalls)
       /\ \E r \in {WholeScreen} \cup OddRegions, a \in Attributes : ScrSetColor(r, a)
    \/ Within(MaxBufCalls) /\ \E r \in {WholeScreen} \cup OddRegions : ScrReadText(r)
    \/ /\ Within(MaxBufCalls)
       /\ \E r \in {WholeScreen, LastCell} :
             ScrWriteText(r, Pattern(5, r[3] * r[4]))
    \/ /\ Within(MaxBufCalls)
       /\ \E p \in {<<1, 1>>, <<MaxRows, MaxCols>>}, n \in Counts, t \in Texts :
             ScrPrint(p[1], p[2], n, REV_GREEN, t)
    \/ /\ Within(MaxBufCalls)
       /\ \E p \in {<<1, 1>>, <<MaxRows, MaxCols>>}, n \in Counts, t \in Texts :
             ScrPrintText(p[1], p[2], n, t)
    \/ /\ Within(MaxBufCalls)
       /\ \E d \in {"UP", "DOWN"}, r \in {WholeScreen} \cup OddRegions,
             k \in {0, 1, MaxRows} :
             ScrScroll(d, r, k, REV_GREEN)

SpecBuf == Init /\ [][NextBuf]_vars

\* ----------------------------------------- specification of scrolling
\* scroll on a screen tall enough for two rows to survive a scroll by one,
\* blank or filled with bytes that all differ.
ScrollGeometry == <<MaxRows + 1, 2>>

ScrollRegions ==
    {<<row, column, width, height>> :
        row \in 1..ScrollGeometry[1], column \in 1..ScrollGeometry[2],
        width \in 1..ScrollGeometry[2], height \in 1..ScrollGeometry[1]}

NextScroll ==
    \/ /\ Within(MaxBufCalls)
       /\ initialize_counter = 0
       /\ \E ok \in BOOLEAN :
             ScrInitialize(ScrollGeometry[1], ScrollGeometry[2], ok, max_color_pairs)
    \/ /\ Within(MaxBufCalls)
       /\ last_op = "initialize"
       /\ \E seed \in Seeds :
             ScrWrite(<<1, 1, total_columns, total_rows>>,
                      Pattern(seed, 2 * total_rows * total_columns))
    \/ /\ Within(MaxBufCalls)
       /\ \E d \in {"UP", "DOWN"}, r \in ScrollRegions \cup {OffScreen},
             k \in 0..(ScrollGeometry[1] + 1) :
             ScrScroll(d, r, k, REV_GREEN)

SpecScroll == Init /\ [][NextScroll]_vars

\* ------------------------------------- specification of region clamping
\* adjust_dimensions on the default geometry and on the geometries that
\* initialize() finds, with arguments from both ends and the middle of
\* int, and then applied once more to its own result.
MaxAdjCalls == 3

IntValues == {INT_MIN, -1, 0, 1, 2, MaxCols, MaxCols + 1, INT_MAX - 1, INT_MAX}

NextAdj ==
    \/ /\ Within(MaxAdjCalls)
       /\ initialize_counter = 0
       /\ last_op = "none"
       /\ \E g \in Geometries : ScrInitialize(g[1], g[2], TRUE, max_color_pairs)
    \/ /\ Within(MaxAdjCalls)
       /\ last_op # "adjust_dimensions"
       /\ \E r \in IntValues, c \in IntValues, w \in IntValues, h \in IntValues :
             ScrAdjustDimensions(r, c, w, h)
    \/ /\ Within(MaxAdjCalls)
       /\ last_op = "adjust_dimensions"
       /\ ScrAdjustDimensions(out_buffer[1], out_buffer[2], out_buffer[3],
                              out_buffer[4])

SpecAdj == Init /\ [][NextAdj]_vars

\* reverse_attribute on every 8-bit attribute, and again on its own result.
MaxAttrCalls == 2

AttributeValues == 0..255

NextAttr ==
    \/ /\ Within(MaxAttrCalls)
       /\ last_op # "reverse_attribute"
       /\ \E a \in AttributeValues : ScrReverseAttribute(a)
    \/ /\ Within(MaxAttrCalls)
       /\ last_op = "reverse_attribute"
       /\ ScrReverseAttribute(out_buffer[1])

SpecAttr == Init /\ [][NextAttr]_vars

\* convert_attribute on every 8-bit attribute, before and after initialize
\* has found a colour-capable or a monochrome terminal.
NextConv ==
    \/ /\ Within(MaxAttrCalls)
       /\ initialize_counter = 0
       /\ \E ok \in BOOLEAN : ScrInitialize(1, 1, ok, max_color_pairs)
    \/ /\ Within(MaxAttrCalls)
       /\ \E a \in AttributeValues : ScrConvertAttribute(a)

SpecConv == Init /\ [][NextConv]_vars

\* get_box_characters for every BoxType, built with and without
\* SCR_ASCIIBOXES.
MaxBoxCalls == 3

NextBox ==
    /\ Within(MaxBoxCalls)
    /\ \E ascii_boxes \in BOOLEAN, t \in BoxTypes :
          ScrGetBoxCharacters(ascii_boxes, t)

SpecBox == Init /\ [][NextBox]_vars

\* ------------------------------------------------- specification of Timer
\* One Timer object, constructed in Init, and the calls of its member
\* functions; a call that reads the system time finds it at or after the
\* previous reading.
MaxTimerCalls == 4

\* System times, in milliseconds, at which the clock is read.
ClockReadings == {0, 400, 1000, 1700, 2300}

\* What start_time may hold before start() has assigned it.
IndeterminateTimes == {get_time_as_integer(0), get_time_as_integer(1700)}

\* What a Timer call records about itself.
TimerReturns(name, result) ==
    /\ last_op' = name
    /\ last_args' = <<>>
    /\ last_buffer' = <<>>
    /\ last_ret' = TRUE
    /\ out_buffer' = result
    /\ touched' = <<>>
    /\ calls' = calls + 1
    /\ UNCHANGED int_overflow
    /\ UNCHANGED program_vars
    /\ RunTerminal(<<>>)

\* Timer::reset()
TimerReset ==
    /\ TimerReturns("Timer::reset", <<>>)
    /\ internal_state' = "RESET"
    /\ accumulated' = mytimer_t(0, 0)
    /\ completed' = 0
    /\ UNCHANGED <<start_time, clock>>

\* Timer::start(), the system time being now.
TimerStart(now) ==
    /\ now >= clock
    /\ TimerReturns("Timer::start", <<>>)
    /\ internal_state' = "RUNNING"
    /\ start_time' = <<get_time_as_integer(now)>>
    /\ clock' = now
    /\ UNCHANGED <<accumulated, completed>>

\* Timer::stop(), the system time being now.  A start_time that was never
\* assigned reads as any of IndeterminateTimes.
TimerStop(now) ==
    /\ now >= clock
    /\ TimerReturns("Timer::stop", <<>>)
    /\ internal_state' = "STOPPED"
    /\ \E started \in (IF start_time = <<>> THEN IndeterminateTimes ELSE {start_time[1]}) :
          accumulated' = operator_plus(accumulated,
                                       operator_minus(get_time_as_integer(now), started))
    /\ completed' = IF internal_state = "RUNNING"
                    THEN completed + (now - get_adjusted_time(start_time[1]))
                    ELSE completed
    /\ clock' = now
    /\ UNCHANGED start_time

\* Timer::time(), the system time being now (read only while RUNNING).
TimerTime(now) ==
    /\ now >= clock
    /\ IF internal_state # "RUNNING"
       THEN /\ TimerReturns("Timer::time", <<get_adjusted_time(accumulated)>>)
            /\ UNCHANGED clock
       ELSE /\ TimerReturns("Timer::time",
                            <<get_adjusted_time(
                                 operator_plus(accumulated,
                                               operator_minus(get_time_as_integer(now),
                                                              start_time[1])))>>)
            /\ clock' = now
    /\ UNCHANGED <<internal_state, start_time, accumulated, completed>>

NextTimer ==
    \/ Within(MaxTimerCalls) /\ TimerReset
    \/ Within(MaxTimerCalls) /\ \E now \in ClockReadings : TimerStart(now)
    \/ Within(MaxTimerCalls) /\ \E now \in ClockReadings : TimerStop(now)
    \/ Within(MaxTimerCalls) /\ \E now \in ClockReadings : TimerTime(now)

SpecTimer == Init /\ [][NextTimer]_vars

\* ------------------------------------------------------------ observations
\* The cells of the screen, as indices into stdscr and display.
Cells == 0..(total_rows * total_columns - 1)

\* What the terminal shows when it shows image img.
Shown(img) == [k \in Cells |-> CellGlyph(img, 2 * k)]

\* Both image pointers are non-null / null.
ImagesAllocated == DOMAIN screen_image # {} /\ DOMAIN physical_image # {}
ImagesNull == screen_image = NullImage /\ physical_image = NullImage

\* The calls of a trace that reach the terminal.
TerminalCalls(cmds) == {i \in 1..Len(cmds) : cmds[i].cmd \in TerminalCmds}

\* Whether a trace makes the named call.
Makes(cmds, name) == \E i \in 1..Len(cmds) : cmds[i].cmd = name

BufferAndCursorCalls ==
    {"read", "read_text", "write", "write_text", "print", "print_text",
     "clear", "set_color", "scroll", "set_cursor_position",
     "get_cursor_position"}

\* ------------------------------------------------------------------ claims

\* C1: when refresh() has returned, physical_image equals screen_image in
\* every byte (character and attribute), whatever buffer and cursor calls
\* came before it.
C1_RefreshSynchronizesShadow ==
    last_op = "refresh" => physical_image = screen_image

\* A refresh that had at least two cells to write, one of them changed in
\* its attribute only or character only.
C1_Witness ==
    /\ last_op = "refresh"
    /\ Cardinality(written) >= 2
    /\ physical_image = screen_image
    /\ \E k \in Cells : screen_image[2 * k] # SPACE /\ screen_image[2 * k + 1] = 7
    /\ \E k \in Cells : screen_image[2 * k + 1] # 7

\* C2: when refresh() has returned, the terminal shows exactly the virtual
\* image and the terminal cursor is at the virtual cursor, after every
\* interleaving of buffer calls, set_cursor_position, refresh, redraw and
\* clear_screen.
C2_RefreshShowsVirtualImage ==
    last_op = "refresh" =>
        /\ display = Shown(screen_image)
        /\ cur_y = virtual_row - 1
        /\ cur_x = virtual_column - 1

\* C3: redraw() writes every cell of the terminal from the virtual image,
\* whatever the shadow image holds, and leaves the terminal cursor at the
\* virtual cursor.
C3_RedrawWritesEveryCell ==
    last_op = "redraw" =>
        /\ written = Cells
        /\ display = Shown(screen_image)
        /\ cur_y = virtual_row - 1
        /\ cur_x = virtual_column - 1

\* A redraw of a non-blank image of several cells while the shadow image
\* is out of date and the cursor is away from home.
C3_Witness ==
    /\ last_op = "redraw"
    /\ Cardinality(Cells) > 1
    /\ physical_image # screen_image
    /\ \E k \in Cells : screen_image[2 * k] # SPACE
    /\ virtual_column > 1
    /\ display = Shown(screen_image)

\* C4: the buffer and cursor functions make no terminal call and leave
\* physical_image, physical_row, physical_column and the terminal as they
\* were; within a session the shadow image changes only in refresh and
\* clear_screen.
C4_BufferCallsAreDelayed ==
    [][/\ last_op' \in BufferAndCursorCalls =>
            /\ TerminalCalls(trace') = {}
            /\ UNCHANGED <<physical_image, physical_row, physical_column>>
            /\ UNCHANGED terminal_vars
       /\ (initialize_counter > 0 /\ initialize_counter' > 0
           /\ physical_image' # physical_image) =>
            last_op' \in {"refresh", "clear_screen"}]_vars

\* A print has changed the virtual image and the shadow and the display
\* still hold the old content.
C4_Witness ==
    /\ last_op = "print"
    /\ physical_image # screen_image
    /\ display # Shown(screen_image)
    /\ trace = <<>>

\* C5: when clear_screen() returns, every cell of both images is
\* (space, 0x07), the terminal shows blanks only, and the virtual cursor,
\* the tracked physical cursor and the terminal cursor are at the home
\* position, with no refresh() needed.
C5_ClearScreenIsImmediate ==
    last_op = "clear_screen" =>
        /\ screen_image = FilledImage(total_rows, total_columns, 32, 7)
        /\ physical_image = FilledImage(total_rows, total_columns, 32, 7)
        /\ DOMAIN display = Cells
        /\ \A k \in Cells : display[k] = BlankCh
        /\ virtual_row = 1 /\ virtual_column = 1
        /\ physical_row = 1 /\ physical_column = 1
        /\ cur_y = 0 /\ cur_x = 0

\* clear_screen() as the fourth call or later, on a screen of several cells.
C5_Witness ==
    /\ last_op = "clear_screen"
    /\ calls >= 4
    /\ Cardinality(Cells) > 1
    /\ Makes(trace, "werase")

\* C6: the images are allocated exactly on the counter's step 0 -> 1 and
\* freed exactly on its step 1 -> 0: they are allocated iff
\* initialize_counter > 0, two blocks are live then and none otherwise;
\* initialize adds one to the counter and terminate takes one off, so
\* initialize(); initialize(); terminate() leaves the session Active and
\* the next terminate() makes it Inactive.
C6_ImagesFollowCounter ==
    [][/\ initialize_counter' > 0 <=> ImagesAllocated'
       /\ initialize_counter' = 0 <=> ImagesNull'
       /\ live_blocks' = IF initialize_counter' > 0 THEN 2 ELSE 0
       /\ Makes(trace', "new") <=> (initialize_counter = 0 /\ initialize_counter' = 1)
       /\ Makes(trace', "delete") <=> (initialize_counter = 1 /\ initialize_counter' = 0)
       /\ last_op' = "initialize" => initialize_counter' = initialize_counter + 1
       /\ (last_op' = "terminate" /\ initialize_counter > 0) =>
             initialize_counter' = initialize_counter - 1
       /\ last_op' \notin {"initialize", "terminate"} =>
             initialize_counter' = initialize_counter]_vars

\* initialize(); initialize(); terminate(); terminate(): Inactive again,
\* the images freed by the last call.
C6_Witness ==
    /\ calls = 4
    /\ last_op = "terminate"
    /\ initialize_counter = 0
    /\ Makes(trace, "delete")
    /\ ImagesNull
    /\ live_blocks = 0

\* C7: terminate() while initialize_counter = 0 changes none of the
\* program's variables, makes no external call (no terminal command, no
\* delete, no terminate_key); and initialize_counter is never negative.
C7_UnmatchedTerminateIsNoOp ==
    [][/\ initialize_counter' >= 0
       /\ (last_op' = "terminate" /\ initialize_counter = 0) =>
             /\ UNCHANGED program_vars
             /\ UNCHANGED terminal_vars
             /\ trace' = <<>>]_vars

\* A terminate() too many, after a session that was shut down.
C7_Witness ==
    /\ last_op = "terminate"
    /\ initialize_counter = 0
    /\ trace = <<>>
    /\ curses_mode = "closed"
    /\ LINES > 0

\* C8: initialize() while Active returns true and only adds one to
\* initialize_counter; terminate() with initialize_counter > 1 only takes
\* one off: images, cursors, geometry, maps and the terminal are unchanged
\* and no keyboard hook or terminal command is called.
C8_NestedCallsOnlyCount ==
    [][/\ (last_op' = "initialize" /\ initialize_counter > 0) =>
             /\ last_ret' = TRUE
             /\ initialize_counter' = initialize_counter + 1
             /\ UNCHANGED <<screen_image, physical_image, virtual_row,
                            virtual_column, physical_row, physical_column,
                            total_rows, total_columns, max_rows, max_columns,
                            box_character_map, colors_map, color_works,
                            live_blocks, key_initialized>>
             /\ UNCHANGED terminal_vars
             /\ trace' = <<>>
       /\ (last_op' = "terminate" /\ initialize_counter > 1) =>
             /\ initialize_counter' = initialize_counter - 1
             /\ UNCHANGED <<screen_image, physical_image, virtual_row,
                            virtual_column, physical_row, physical_column,
                            total_rows, total_columns, max_rows, max_columns,
                            box_character_map, colors_map, color_works,
                            live_blocks, key_initialized>>
             /\ UNCHANGED terminal_vars
             /\ trace' = <<>>]_vars

\* A nested terminate() on a session whose image is not blank.
C8_Witness ==
    /\ last_op = "terminate"
    /\ initialize_counter = 1
    /\ trace = <<>>
    /\ \E k \in Cells : screen_image[2 * k] # SPACE

\* The first initialize() of a session, in which start_color() failed.
StartColorFailed ==
    /\ last_op = "initialize"
    /\ Makes(trace, "start_color")
    /\ ~color_works

\* C9: when start_color() fails inside initialize(), initialize() returns
\* false, initialize_counter stays 0 and no screen image is left allocated.
C9_FailureIsReported ==
    StartColorFailed =>
        /\ last_ret = FALSE
        /\ initialize_counter = 0
        /\ ImagesNull

\* What initialize() does when start_color() fails: it returns true and the
\* session is Active in monochrome mode, both images allocated and blank
\* and no colour pair defined.
StartColorFailureDegrades ==
    StartColorFailed =>
        /\ last_ret = TRUE
        /\ initialize_counter = 1
        /\ ImagesAllocated
        /\ live_blocks = 2
        /\ screen_image = FilledImage(total_rows, total_columns, 32, 7)
        /\ ~Makes(trace, "init_pair")

\* The region <<row, column, width, height>> lies on the screen:
\* 1 <= row <= total_rows, 1 <= column <= total_columns, width >= 1,
\* height >= 1, row + height - 1 <= total_rows and
\* column + width - 1 <= total_columns (the sums written as differences,
\* which cannot leave the range of int).
OnScreen(r) ==
    /\ r[1] >= 1 /\ r[1] <= total_rows
    /\ r[2] >= 1 /\ r[2] <= total_columns
    /\ r[3] >= 1 /\ r[4] >= 1
    /\ r[4] <= total_rows - r[1] + 1
    /\ r[3] <= total_columns - r[2] + 1

\* C10: write(R, B) followed by read(R, B2), R fully on screen and B of
\* 2*width*height bytes, gives B2 = B, characters and attributes alike, in
\* colour and in monochrome mode.
C10_WriteThenReadRoundTrip ==
    [][(/\ last_op = "write"
        /\ last_op' = "read"
        /\ last_args' = last_args
        /\ OnScreen(last_args)
        /\ Len(last_buffer) = 2 * last_args[3] * last_args[4]) =>
            out_buffer' = last_buffer]_vars

\* A 2 x 2 region in the middle of a monochrome screen, read back right
\* after it was written with attribute bytes that carry colour bits.
C10_Witness ==
    /\ last_op = "read"
    /\ calls = 3
    /\ ~color_works
    /\ last_args = <<1, 2, 2, 2>>
    /\ OnScreen(last_args)
    /\ out_buffer = Pattern(200, 8)

\* C11: for every geometry of at least 1 x 1 and all int arguments,
\* zero, negative and near INT_MAX included, adjust_dimensions leaves a
\* region that lies on the screen.
C11_ClampedRegionIsOnScreen ==
    last_op = "adjust_dimensions" => OnScreen(out_buffer)

\* C12: adjust_dimensions applied to its own result changes nothing, and a
\* region that lies on the screen is returned as it was given.
C12_ClampIsIdempotent ==
    [][/\ (/\ last_op = "adjust_dimensions"
           /\ last_op' = "adjust_dimensions"
           /\ last_args' = out_buffer) =>
             out_buffer' = out_buffer
       /\ (last_op' = "adjust_dimensions" /\ OnScreen(last_args')) =>
             out_buffer' = last_args']_vars

\* adjust_dimensions applied to the one-cell region in the lower right
\* corner that a first call gave back.
C12_Witness ==
    /\ last_op = "adjust_dimensions"
    /\ calls = 3
    /\ initialize_counter = 1
    /\ total_columns > 1
    /\ last_args = <<total_rows, total_columns, 1, 1>>
    /\ out_buffer = last_args

\* The functions that read or write the virtual image at a caller's region.
BufferFunctions ==
    {"read", "read_text", "write", "write_text", "print", "print_text",
     "clear", "set_color", "scroll"}

\* C13: while the session is Active, the buffer functions never fail, for
\* any region argument: a region that is off the screen or has no size is
\* clamped, and the function accesses only cells of the virtual image (none
\* outside the image array).
C13_BufferFunctionsStayInImage ==
    last_op \in BufferFunctions => last_ret = TRUE /\ InImage(touched)

\* The (character, attribute) pair of the cell at (row, column) of img.
Cell(img, row, column) ==
    <<img[Offset(row, column, total_columns)],
      img[Offset(row, column, total_columns) + 1]>>

\* C14: in both directions, scroll(direction, R, k, a) with k at least the
\* clamped height of R leaves the virtual image that clear(R, a) would
\* leave, in colour and in monochrome mode.
C14_ScrollByHeightIsClear ==
    [][(/\ last_op' = "scroll"
        /\ touched' # <<>>
        /\ InImage(touched')
        /\ last_args'[6] >= touched'[4]) =>
            screen_image' = clear(screen_image, total_rows, total_columns,
                                  color_works, last_args'[2], last_args'[3],
                                  last_args'[4], last_args'[5], last_args'[7])]_vars

\* A monochrome screen filled with distinct bytes, of which a scroll by
\* exactly the region's height has cleared two rows of one column and
\* nothing else.
C14_Witness ==
    /\ last_op = "scroll"
    /\ ~color_works
    /\ calls = 3
    /\ last_args[6] = 2
    /\ touched = <<2, 2, 1, 2>>
    /\ Cell(screen_image, 2, 2) = <<SPACE, REV_WHITE>>
    /\ Cell(screen_image, 3, 2) = <<SPACE, REV_WHITE>>
    /\ \A row \in 1..total_rows : Cell(screen_image, row, 1)[1] # SPACE
    /\ Cell(screen_image, 1, 2)[1] # SPACE

\* C15: for a clamped region of height H at rows r..r+H-1 and 0 < k < H,
\* scroll UP makes row r+i the old row r+i+k for 0 <= i < H-k and fills the
\* last k rows with (space, converted attribute); scroll DOWN makes row
\* r+k+i the old row r+i and fills the first k rows; all within the
\* region's columns, and no cell outside the region changes.
C15_ScrollMovesRows ==
    [][(/\ last_op' = "scroll"
        /\ touched' # <<>>
        /\ InImage(touched')
        /\ last_args'[6] > 0
        /\ last_args'[6] < touched'[4]) =>
            LET r == touched'[1]
                c == touched'[2]
                W == touched'[3]
                H == touched'[4]
                k == last_args'[6]
                fill == <<SPACE, convert_attribute(color_works, last_args'[7])>>
                up == last_args'[1] = 0
            IN  \A row \in 1..total_rows, column \in 1..total_columns :
                   Cell(screen_image', row, column) =
                      IF ~(row >= r /\ row < r + H /\ column >= c /\ column < c + W)
                      THEN Cell(screen_image, row, column)
                      ELSE IF up
                      THEN IF row < r + H - k
                           THEN Cell(screen_image, row + k, column)
                           ELSE fill
                      ELSE IF row >= r + k
                           THEN Cell(screen_image, row - k, column)
                           ELSE fill]_vars

\* A scroll DOWN by one of the whole height of column 2 on a screen
\* filled with distinct bytes: two rows have survived, in their order.
C15_Witness ==
    /\ last_op = "scroll"
    /\ calls = 3
    /\ last_args[1] = 1
    /\ last_args[6] = 1
    /\ touched = <<1, 2, 1, total_rows>>
    /\ total_rows >= 3
    /\ Cell(screen_image, 1, 2)[1] = SPACE
    /\ Cell(screen_image, 2, 2)[1] # SPACE
    /\ Cell(screen_image, 3, 2)[1] # SPACE
    /\ Cell(screen_image, 2, 2) # Cell(screen_image, 3, 2)

\* The cells in which two images of the screen differ.
ChangedCells(before, after) ==
    {p \in (1..total_rows) \X (1..total_columns) :
        Cell(before, p[1], p[2]) # Cell(after, p[1], p[2])}

\* The least of three numbers.
Min3(a, b, c) ==
    IF a <= b /\ a <= c THEN a ELSE IF b <= c THEN b ELSE c

\* C16: print and print_text modify at most maxCount cells of the virtual
\* image, for every maxCount >= 0 (maxCount = 0 with a non-empty text
\* included) and every start position.
C16_PrintWritesAtMostCount ==
    [][last_op' \in {"print", "print_text"} =>
          Cardinality(ChangedCells(screen_image, screen_image')) <= last_args'[3]]_vars

\* C17: print(row, column, maxCount, attribute, text) with the start
\* position on the screen makes cell (row, column + i) the pair
\* (text[i], convert_attribute(attribute)) for 0 <= i < min(length of text,
\* maxCount, total_columns - column + 1) and changes no other cell.
C17_PrintStaysInRow ==
    [][(/\ last_op' = "print"
        /\ last_args'[1] >= 1 /\ last_args'[1] <= total_rows
        /\ last_args'[2] >= 1 /\ last_args'[2] <= total_columns) =>
            LET row == last_args'[1]
                column == last_args'[2]
                m == Min3(Len(last_buffer'), last_args'[3],
                          total_columns - column + 1)
                a == convert_attribute(color_works, last_args'[4])
            IN  \A r \in 1..total_rows, c \in 1..total_columns :
                   Cell(screen_image', r, c) =
                      IF r = row /\ c >= column /\ c < column + m
                      THEN <<last_buffer'[c - column + 1], a>>
                      ELSE Cell(screen_image, r, c)]_vars

\* C18: print_text and write_text leave every attribute byte of the virtual
\* image as it was, and the character bytes of the cells they target take
\* the supplied text, row by row in the clamped width (for calls whose
\* accesses stay inside the image, the others being undefined).
C18_TextCallsKeepAttributes ==
    [][(last_op' \in {"print_text", "write_text"} /\ InImage(touched')) =>
          /\ \A i \in DOMAIN screen_image :
                i % 2 = 1 => screen_image'[i] = screen_image[i]
          /\ touched' # <<>> =>
                \A j \in 0..(touched'[4] - 1), i \in 0..(touched'[3] - 1) :
                   screen_image'[Offset(touched'[1] + j, touched'[2],
                                        total_columns) + 2 * i] =
                      last_buffer'[j * touched'[3] + i + 1]]_vars

C18_Witness ==
    /\ last_op = "print_text"
    /\ color_works
    /\ total_columns = MaxCols
    /\ touched = <<1, 1, MaxCols, 1>>
    /\ \A c \in 1..MaxCols : Cell(screen_image, 1, c) = <<64 + c, REV_GREEN>>

\* C19: clear and set_color give every cell of the clamped region the
\* attribute convert_attribute(a); clear makes every character of the region
\* a space, set_color leaves every character of the image as it was (for
\* calls whose accesses stay inside the image).
C19_ClearAndSetColor ==
    [][(last_op' \in {"clear", "set_color"} /\ InImage(touched')) =>
          LET d == touched'
              a == convert_attribute(color_works, last_args'[5])
          IN  \A r \in 1..total_rows, c \in 1..total_columns :
                 /\ (/\ r >= d[1] /\ r < d[1] + d[4]
                     /\ c >= d[2] /\ c < d[2] + d[3]) =>
                       /\ Cell(screen_image', r, c)[2] = a
                       /\ last_op' = "clear" =>
                             Cell(screen_image', r, c)[1] = SPACE
                 /\ last_op' = "set_color" =>
                       Cell(screen_image', r, c)[1] = Cell(screen_image, r, c)[1]]_vars

C19_Witness ==
    /\ last_op = "set_color"
    /\ last_args = WholeScreen \o <<BitOr(BLINK, GREEN)>>
    /\ ~color_works
    /\ total_rows = MaxRows /\ total_columns = MaxCols
    /\ \A r \in 1..MaxRows, c \in 1..MaxCols :
          /\ Cell(screen_image, r, c)[1] # SPACE
          /\ Cell(screen_image, r, c)[2] =
                convert_attribute(FALSE, BitOr(BLINK, GREEN))

\* C20: for every attribute a in 0..255, reverse_attribute(a) has the three
\* foreground bits and the three background bits of a exchanged and the
\* blink and bright bits of a, and reversing the result gives a back.
C20_ReverseIsInvolution ==
    [][last_op' = "reverse_attribute" =>
          LET a == last_args'[1]
              b == out_buffer'[1]
          IN  /\ BitAnd(b, 7) = BitAnd(a, 112) \div 16
              /\ BitAnd(b, 112) \div 16 = BitAnd(a, 7)
              /\ BitAnd(b, BLINK) = BitAnd(a, BLINK)
              /\ BitAnd(b, BRIGHT) = BitAnd(a, BRIGHT)
              /\ b \in AttributeValues
              /\ (last_op = "reverse_attribute" /\ a = out_buffer[1]) =>
                    b = last_args[1]]_vars

C20_Witness ==
    /\ calls = 2
    /\ last_op = "reverse_attribute"
    /\ last_args = <<BitOr(BitOr(BLINK, BRIGHT), REV_GREEN)>>
    /\ out_buffer = <<BitOr(BitOr(BLINK, BRIGHT), GREEN)>>

\* C21: for every attribute a in 0..255 convert_attribute returns a on a
\* colour-capable terminal; on a monochrome terminal it returns a | 0x07 when
\* the background bits of a are zero and (a | 0x70) & 0xF8 otherwise; the
\* blink and bright bits are kept; 0x20 gives 0x70 and 0x00 gives 0x07.
C21_ConvertAttribute ==
    last_op = "convert_attribute" =>
       LET a == last_args[1]
           b == out_buffer[1]
       IN  /\ color_works => b = a
           /\ ~color_works =>
                 /\ BitAnd(a, 112) = 0 => b = BitOr(a, 7)
                 /\ BitAnd(a, 112) # 0 => b = BitAnd(BitOr(a, 112), 248)
                 /\ a = 32 => b = 112
                 /\ a = 0 => b = 7
           /\ BitAnd(b, BLINK) = BitAnd(a, BLINK)
           /\ BitAnd(b, BRIGHT) = BitAnd(a, BRIGHT)

C21_Witness ==
    /\ last_op = "convert_attribute"
    /\ initialize_counter = 1
    /\ ~color_works
    /\ last_args = <<BitOr(BitOr(BLINK, BRIGHT), REV_GREEN)>>
    /\ out_buffer = <<BitOr(BitOr(BLINK, BRIGHT), REV_WHITE)>>

\* An attribute that convert_attribute leaves unchanged on a monochrome
\* terminal.
Visible(attribute) == convert_attribute(FALSE, attribute) = attribute

\* The attribute bytes an image holds.
AttributesOf(img) == {img[i] : i \in {k \in DOMAIN img : k % 2 = 1}}

\* C22 (as stated): on a monochrome terminal every cell of the virtual image
\* holds a visible attribute, whatever buffer operations were called with
\* whatever attributes.
C22_EveryCellVisible ==
    ~color_works => \A a \in AttributesOf(screen_image) : Visible(a)

\* C22 (amended): on a monochrome terminal every operation other than write
\* stores only visible attributes: each attribute byte of the image after the
\* call is visible or was in the image before the call. write copies the
\* caller's attribute bytes as they are.
C22_OnlyWriteStoresRawAttributes ==
    [][(~color_works' /\ last_op' # "write" /\ InImage(touched')) =>
          \A a \in AttributesOf(screen_image') :
             Visible(a) \/ a \in AttributesOf(screen_image)]_vars

C22_Witness ==
    /\ ~color_works
    /\ last_op = "clear"
    /\ last_args = WholeScreen \o <<REV_GREEN>>
    /\ ~Visible(REV_GREEN)
    /\ AttributesOf(screen_image) = {REV_WHITE}

\* The glyph set whose eleven roles all hold one code.
AllRoles(code) == [k \in 1..11 |-> code]

\* C23: built without SCR_ASCIIBOXES, get_box_characters gives for
\* single-line horizontal 196, vertical 179, upper-left 218; for double-line
\* horizontal 205, vertical 186; for ascii 45, 124 and 43 for every corner,
\* stop and cross; for blank 32 in all 11 roles; for dark, light and solid
\* 177, 176 and 219 in all 11 roles.
C23_ReferenceGlyphs ==
    (last_op = "get_box_characters" /\ last_args[1] = 0) =>
       LET t == last_args[2]
           g == out_buffer
       IN  /\ t = SINGLE_LINE => g[1] = 196 /\ g[2] = 179 /\ g[3] = 218
           /\ t = DOUBLE_LINE => g[1] = 205 /\ g[2] = 186
           /\ t = ASCII =>
                 g[1] = 45 /\ g[2] = 124 /\ \A k \in 3..11 : g[k] = 43
           /\ t = BLANK_BOX => g = AllRoles(32)
           /\ t = DARK_GRAPHIC => g = AllRoles(177)
           /\ t = LIGHT_GRAPHIC => g = AllRoles(176)
           /\ t = SOLID => g = AllRoles(219)

C23_Witness ==
    /\ last_op = "get_box_characters"
    /\ last_args = <<0, SINGLE_LINE>>
    /\ out_buffer[1] = 196 /\ out_buffer[11] = 197

\* C24: built with SCR_ASCIIBOXES, get_box_characters(t) gives the ascii
\* glyph set for every BoxType other than BLANK_BOX, NO_BORDER included, and
\* the all-spaces set for BLANK_BOX.
C24_AsciiBoxes ==
    (last_op = "get_box_characters" /\ last_args[1] = 1) =>
       out_buffer = IF last_args[2] = BLANK_BOX
                    THEN AllRoles(32)
                    ELSE <<45, 124, 43, 43, 43, 43, 43, 43, 43, 43, 43>>

C24_Witness ==
    /\ last_op = "get_box_characters"
    /\ last_args = <<1, DOUBLE_LINE>>
    /\ out_buffer[1] = 45 /\ out_buffer[2] = 124 /\ out_buffer[3] = 43

\* C25: built without SCR_ASCIIBOXES, for each of the 8 BoxType values the
\* index get_box_characters uses is inside box_definitions and the result is
\* that row of the table.
C25_IndexInsideTable ==
    (last_op = "get_box_characters" /\ last_args[1] = 0) =>
       /\ box_index(FALSE, last_args[2]) + 1 \in DOMAIN box_definitions
       /\ out_buffer = box_definitions[box_index(FALSE, last_args[2]) + 1]

\* C26: while the library is initialized the virtual cursor is on the
\* screen; set_cursor_position(r, c) stores r and c, each brought into
\* 1..total_rows and 1..total_columns, and get_cursor_position returns the
\* stored pair.
C26_CursorOnScreen ==
    /\ initialize_counter > 0 =>
          /\ virtual_row >= 1 /\ virtual_row <= total_rows
          /\ virtual_column >= 1 /\ virtual_column <= total_columns
    /\ last_op = "set_cursor_position" =>
          /\ virtual_row =
                IF last_args[1] \in 1..total_rows THEN last_args[1]
                ELSE IF last_args[1] < 1 THEN 1 ELSE total_rows
          /\ virtual_column =
                IF last_args[2] \in 1..total_columns THEN last_args[2]
                ELSE IF last_args[2] < 1 THEN 1 ELSE total_columns
    /\ last_op = "get_cursor_position" =>
          out_buffer = <<virtual_row, virtual_column>>

C26_Witness ==
    /\ last_op = "get_cursor_position"
    /\ total_rows = MaxRows /\ total_columns = MaxCols
    /\ out_buffer = <<MaxRows, MaxCols>>

\* C27: off() and on() leave the virtual image, the physical image, the
\* virtual cursor, the screen geometry and initialize_counter as they were.
C27_OffOnKeepBufferState ==
    [][last_op' \in {"off", "on"} =>
          UNCHANGED <<screen_image, physical_image, virtual_row,
                      virtual_column, total_rows, total_columns,
                      initialize_counter>>]_vars

\* on() returned after off() was called with a cursor away from home and
\* with changes in the virtual image that no refresh had shown.
C27_Witness ==
    /\ last_op = "on"
    /\ <<virtual_row, virtual_column>> = <<1, 2>>
    /\ screen_image # physical_image

\* C28 (as stated): when on() has returned, the physical image and the
\* terminal display equal the virtual image, changes made before off() and
\* not yet refreshed included.
C28_OnShowsVirtualImage ==
    last_op = "on" =>
        /\ physical_image = screen_image
        /\ display = Shown(screen_image)

\* C28 (amended): on() puts the terminal back into program mode and calls
\* curses' own refresh, which shows what stdscr holds; it writes nothing to
\* stdscr and changes neither image, so changes of the virtual image that
\* were pending before off() are still pending when on() returns.
C28_OnRestoresCursesScreen ==
    [][last_op' = "on" =>
          /\ curses_mode' = "prog"
          /\ Makes(trace', "refresh")
          /\ written' = {}
          /\ stdscr' = stdscr
          /\ display' = stdscr
          /\ physical_image' = physical_image
          /\ screen_image' = screen_image]_vars

C28_Witness ==
    /\ last_op = "on"
    /\ curses_mode = "prog"
    /\ physical_image # screen_image
    /\ display = Shown(physical_image)
    /\ display # Shown(screen_image)

\* What curses shows for a console cell.
GlyphOf(cell) ==
    new_character(cell[1], cell[2], box_character_map, colors_map, color_works)

\* C29: on a colour terminal, whenever refresh, redraw or clear_screen
\* returns, the curses backend shows the grid and the cursor that the
\* direct-console backend shows after the same call on the same virtual
\* image and virtual cursor.
C29_BackendsEquivalent ==
    [][(color_works' /\ last_op' \in {"refresh", "redraw", "clear_screen"}) =>
          IF last_op' = "clear_screen"
          THEN LET w == console_clear_screen(screen_image, total_rows,
                                             total_columns)
               IN  /\ screen_image' = w.img
                   /\ virtual_row' = w.vrow /\ virtual_column' = w.vcol
                   /\ display' = [k \in Cells |-> GlyphOf(w.console.image[k])]
                   /\ cur_x' = w.console.x /\ cur_y' = w.console.y
          ELSE LET c == console_redraw(screen_image, total_rows, total_columns,
                                       virtual_row, virtual_column)
               IN  /\ display' = [k \in Cells |-> GlyphOf(c.image[k])]
                   /\ cur_x' = c.x /\ cur_y' = c.y]_vars

\* The addch calls of a trace, in order.
AddChCalls(cmds) == SelectSeq(cmds, LAMBDA c : c.cmd = "addch")

\* The cells whose two bytes differ between two images.
DifferingCells(img, shadow) ==
    {k \in Cells : img[2 * k] # shadow[2 * k] \/ img[2 * k + 1] # shadow[2 * k + 1]}

\* The j-th cell of a set of cells in screen order.
NthCell(cells, j) ==
    CHOOSE k \in cells : Cardinality({m \in cells : m < k}) = j - 1

\* C30: each glyph refresh and redraw hand to addch is the mapped native
\* glyph when the cell's character byte, taken as 0..255, is one of the 24
\* mapped box drawing codes, and the byte's unsigned value otherwise; the
\* image holds signed 8-bit chars and the map is keyed by unsigned char.
C30_BoxCodesAreMapped ==
    [][last_op' \in {"refresh", "redraw"} =>
          LET adds == AddChCalls(trace')
              cells == IF last_op' = "redraw" THEN Cells
                       ELSE DifferingCells(screen_image, physical_image)
          IN  /\ Len(adds) = Cardinality(cells)
              /\ \A j \in 1..Len(adds) :
                    LET byte == screen_image[2 * NthCell(cells, j)]
                    IN  IF byte \in DOMAIN character_associations
                        THEN adds[j].ch.acs = character_associations[byte]
                        ELSE adds[j].ch.acs = "" /\ adds[j].ch.raw = byte]_vars

\* C31: on a colour terminal the colour pair refresh and redraw hand to
\* addch for a cell depends on the three foreground and three background
\* bits of the attribute byte alone (it is the pair of the attribute with
\* blink and bright cleared), and blink and bright are handed over as the
\* A_BLINK and A_BOLD flags; attribute bytes are signed 8-bit chars.
C31_PairIgnoresBlinkAndBright ==
    [][(color_works' /\ last_op' \in {"refresh", "redraw"}) =>
          LET adds == AddChCalls(trace')
              cells == IF last_op' = "redraw" THEN Cells
                       ELSE DifferingCells(screen_image, physical_image)
          IN  /\ Len(adds) = Cardinality(cells)
              /\ \A j \in 1..Len(adds) :
                    LET byte == screen_image[2 * NthCell(cells, j)]
                        attribute == screen_image[2 * NthCell(cells, j) + 1]
                    IN  /\ adds[j].ch.pair =
                              GlyphOf(<<byte, BitAnd(attribute, 119)>>).pair
                        /\ adds[j].ch.blink = (BitAnd(attribute, BLINK) # 0)
                        /\ adds[j].ch.bold = (BitAnd(attribute, BRIGHT) # 0)]_vars

\* C32: an initialize() that follows the terminate() which shut the library
\* down returns true and starts a fresh session: the counter is 1, both
\* images are newly allocated at the geometry curses detects, every virtual
\* and physical cell is (space, 0x07), the virtual, the tracked and the
\* terminal cursor are at home, and box_character_map is populated again.
C32_RestartIsFresh ==
    [][(last_op = "terminate" /\ initialize_counter = 0
        /\ last_op' = "initialize") =>
          /\ last_ret' = TRUE
          /\ initialize_counter' = 1
          /\ total_rows' = LINES' /\ total_columns' = COLS'
          /\ live_blocks' = live_blocks + 2
          /\ DOMAIN screen_image' = 0..(2 * LINES' * COLS' - 1)
          /\ DOMAIN physical_image' = DOMAIN screen_image'
          /\ \A i \in DOMAIN screen_image' :
                /\ screen_image'[i] = (IF i % 2 = 0 THEN SPACE ELSE 7)
                /\ physical_image'[i] = screen_image'[i]
          /\ <<virtual_row', virtual_column'>> = <<1, 1>>
          /\ <<physical_row', physical_column'>> = <<1, 1>>
          /\ <<cur_y', cur_x'>> = <<0, 0>>
          /\ box_character_map' = character_associations]_vars

\* A second session on a monochrome terminal after a first one on a colour
\* terminal (colors_map is never erased), at the larger geometry.
C32_Witness ==
    /\ last_op = "initialize"
    /\ initialize_counter = 1
    /\ ~color_works /\ colors_map # EmptyMap
    /\ total_rows = MaxRows /\ total_columns = MaxCols
    /\ box_character_map = character_associations
    /\ ImagesAllocated

\* C33: the cells of the terminal that one refresh() writes are exactly the
\* cells whose character or attribute differs between the virtual and the
\* physical image when it starts; a refresh() that follows a refresh()
\* directly writes no cell.
C33_RefreshWritesDifferingCells ==
    [][last_op' = "refresh" =>
          /\ written' = DifferingCells(screen_image, physical_image)
          /\ last_op = "refresh" => written' = {} /\ AddChCalls(trace') = <<>>]_vars

\* The move calls of a trace.
MoveCalls(cmds) == SelectSeq(cmds, LAMBDA c : c.cmd = "move")

\* The maximal runs of consecutive cells of one row in a set of cells.
Runs(cells) ==
    Cardinality({k \in cells : k % total_columns = 0 \/ (k - 1) \notin cells})

\* C34: in one refresh() a move precedes a cell write only when the tracked
\* cursor is not at that cell: every maximal same-row run of changed cells
\* costs one move, none when the tracked cursor is at its first cell as
\* refresh starts, and one more move places the cursor at the end; so there
\* are at most (number of runs) + 1 moves.
C34_MovesPerRun ==
    [][last_op' = "refresh" =>
          LET cells == DifferingCells(screen_image, physical_image)
              tracked == (physical_row - 1) * total_columns + physical_column - 1
              first == CHOOSE k \in cells : \A m \in cells : k <= m
              saved == IF cells # {} /\ first = tracked
                          /\ physical_column <= total_columns
                       THEN 1 ELSE 0
          IN  /\ Len(MoveCalls(trace')) = Runs(cells) + 1 - saved
              /\ Len(MoveCalls(trace')) <= Runs(cells) + 1]_vars

\* A refresh that wrote the whole screen, one run per row, the first run
\* starting under the tracked cursor.
C34_Witness ==
    /\ last_op = "refresh"
    /\ total_rows = MaxRows /\ total_columns = MaxCols
    /\ Cardinality(written) = MaxRows * MaxCols
    /\ Len(MoveCalls(trace)) = MaxRows

\* C35: while the library is initialized, the cursor position refresh()
\* tracks in physical_row and physical_column is where the terminal's
\* cursor is, whenever a call has returned (so at the start of every
\* refresh), whatever refresh, redraw, clear_screen and set_cursor_position
\* calls came before.
C35_TrackedCursorIsRealCursor ==
    Active => cur_y = physical_row - 1 /\ cur_x = physical_column - 1

\* Where a trace makes the named call first and last (0: nowhere).
FirstCall(cmds, name) ==
    IF Makes(cmds, name)
    THEN CHOOSE i \in 1..Len(cmds) : cmds[i].cmd = name /\ \A j \in 1..(i - 1) : cmds[j].cmd # name
    ELSE 0
LastCall(cmds, name) ==
    IF Makes(cmds, name)
    THEN CHOOSE i \in 1..Len(cmds) : cmds[i].cmd = name /\ \A j \in (i + 1)..Len(cmds) : cmds[j].cmd # name
    ELSE 0

\* An initialize() that takes the library from Inactive to Active.
FirstInitialize == initialize_counter = 0 /\ last_op' = "initialize"

\* A terminate() that takes the library from Active(1) to Inactive.
LastTerminate == initialize_counter = 1 /\ last_op' = "terminate"

\* C36 as stated: on the Inactive-to-Active transition initialize() sets up
\* the terminal mode, queries the geometry, allocates the images, then calls
\* initialize_key, then clears the screen, and the counter becomes 1.
C36_KeyHookAfterAllocation ==
    [][FirstInitialize =>
          /\ FirstCall(trace', "initscr") < FirstCall(trace', "initialize_key")
          /\ Makes(trace', "new")
          /\ LastCall(trace', "new") < FirstCall(trace', "initialize_key")
          /\ FirstCall(trace', "initialize_key") < FirstCall(trace', "werase")
          /\ initialize_counter' = 1]_vars

\* C36 as the code has it: on the Inactive-to-Active transition initialize()
\* calls initialize_key first, then sets up the terminal mode (initscr, raw,
\* noecho, nonl, intrflush, keypad, colours), takes the geometry curses
\* reports, allocates the two images, clears the screen, and the counter
\* becomes 1.
C36_KeyHookFirst ==
    [][FirstInitialize =>
          /\ FirstCall(trace', "initialize_key") = 1
          /\ LastCall(trace', "initialize_key") = 1
          /\ FirstCall(trace', "initscr") = 2
          /\ FirstCall(trace', "raw") = 3
          /\ FirstCall(trace', "keypad") = 7
          /\ FirstCall(trace', "start_color") = 8
          /\ LastCall(trace', "init_pair") < FirstCall(trace', "new")
          /\ FirstCall(trace', "new") > 8
          /\ LastCall(trace', "new") = FirstCall(trace', "new") + 1
          /\ FirstCall(trace', "werase") = LastCall(trace', "new") + 1
          /\ LastCall(trace', "refresh") = Len(trace')
          /\ total_rows' = LINES' /\ total_columns' = COLS'
          /\ DOMAIN screen_image' = 0..(2 * LINES' * COLS' - 1)
          /\ initialize_counter' = 1]_vars

\* An initialize() that started a session on a colour terminal.
C36_Witness ==
    /\ last_op = "initialize"
    /\ initialize_counter = 1
    /\ color_works
    /\ Makes(trace, "initialize_key")
    /\ Makes(trace, "init_pair")
    /\ Makes(trace, "new")

\* C37 as stated: on the Active(1)-to-Inactive transition terminate()
\* clears the screen, tears the terminal mode down, calls terminate_key and
\* then frees the images; initialize_key and terminate_key calls alternate.
C37_KeyHookBeforeFree ==
    [][LastTerminate =>
          /\ LastCall(trace', "refresh") < FirstCall(trace', "endwin")
          /\ FirstCall(trace', "endwin") < FirstCall(trace', "terminate_key")
          /\ Makes(trace', "delete")
          /\ FirstCall(trace', "terminate_key") < FirstCall(trace', "delete")]_vars

\* C37 as the code has it: on the Active(1)-to-Inactive transition
\* terminate() redraws a blank screen with the cursor home, tears the
\* terminal mode down (endwin), frees the two images and calls terminate_key
\* last; over any sequence of calls initialize_key and terminate_key
\* alternate, starting with initialize_key: a call makes each at most once,
\* initialize_key only when the last hook call was terminate_key (or there
\* was none), terminate_key only when it was initialize_key.
C37_KeyHookLast ==
    [][/\ LastTerminate =>
             /\ \A j \in 1..Len(AddChCalls(trace')) : AddChCalls(trace')[j].ch.raw = SPACE
             /\ Len(AddChCalls(trace')) = total_rows * total_columns
             /\ trace'[LastCall(trace', "move")] = Move(0, 0)
             /\ LastCall(trace', "refresh") = LastCall(trace', "move") + 1
             /\ FirstCall(trace', "endwin") = LastCall(trace', "refresh") + 1
             /\ FirstCall(trace', "delete") = FirstCall(trace', "endwin") + 1
             /\ LastCall(trace', "delete") = FirstCall(trace', "delete") + 1
             /\ FirstCall(trace', "terminate_key") = LastCall(trace', "delete") + 1
             /\ FirstCall(trace', "terminate_key") = Len(trace')
             /\ ImagesNull'
       /\ Makes(trace', "initialize_key") =>
             /\ ~key_initialized /\ key_initialized'
             /\ FirstCall(trace', "initialize_key") = LastCall(trace', "initialize_key")
             /\ ~Makes(trace', "terminate_key")
       /\ Makes(trace', "terminate_key") =>
             /\ key_initialized /\ ~key_initialized'
             /\ FirstCall(trace', "terminate_key") = LastCall(trace', "terminate_key")
             /\ ~Makes(trace', "initialize_key")
       /\ key_initialized' # key_initialized =>
             Makes(trace', "initialize_key") \/ Makes(trace', "terminate_key")]_vars

\* A terminate() that shut the library down and called the hook.
C37_Witness ==
    /\ last_op = "terminate"
    /\ initialize_counter = 0
    /\ ~key_initialized
    /\ Makes(trace, "terminate_key")
    /\ Makes(trace, "delete")
    /\ ImagesNull

\* C38: every colour pair refresh() or redraw() selects for a cell is pair 0
\* or a pair init_pair has initialised, one below min(COLOR_PAIRS, 64).
C38_SelectedPairsAreInitialised ==
    [][last_op' \in {"refresh", "redraw"} =>
          \A j \in 1..Len(AddChCalls(trace')) :
             \/ AddChCalls(trace')[j].ch.pair = 0
             \/ AddChCalls(trace')[j].ch.pair < defined_pairs]_vars

\* Whether cell (r, c) lies in the extent e of a buffer call.
InExtent(r, c, e) ==
    IF e = <<>> THEN FALSE
    ELSE /\ r >= e[1] /\ r < e[1] + e[4]
         /\ c >= e[2] /\ c < e[2] + e[3]

\* C39: write, write_text, print, print_text, clear, set_color and scroll
\* leave every cell of the virtual image outside the clamped region as it
\* was and do not move the virtual cursor; read and read_text change no
\* cell (for calls whose accesses stay inside the image, the others being
\* undefined).
C39_FrameOfBufferCalls ==
    [][(last_op' \in BufferFunctions /\ InImage(touched')) =>
          /\ virtual_row' = virtual_row
          /\ virtual_column' = virtual_column
          /\ DOMAIN screen_image' = DOMAIN screen_image
          /\ \A r \in 1..total_rows, c \in 1..total_columns :
                ~InExtent(r, c, touched') =>
                   Cell(screen_image', r, c) = Cell(screen_image, r, c)
          /\ last_op' \in {"read", "read_text"} => screen_image' = screen_image]_vars

\* A set_color of the last cell of a screen whose other cells hold what an
\* earlier call stored.
C39_Witness ==
    /\ last_op = "set_color"
    /\ last_args = LastCell \o <<BitOr(BLINK, GREEN)>>
    /\ color_works
    /\ total_rows = MaxRows /\ total_columns = MaxCols
    /\ touched = <<MaxRows, MaxCols, 1, 1>>
    /\ Cell(screen_image, MaxRows, MaxCols)[2] = BitOr(BLINK, GREEN)
    /\ \A r \in 1..MaxRows, c \in 1..MaxCols :
          <<r, c>> # <<MaxRows, MaxCols>> => Cell(screen_image, r, c)[2] = REV_GREEN

\* C40: Timer::stop() on a timer that is not RUNNING leaves the time it has
\* accumulated as it was, and time() of a timer that is not RUNNING is the
\* sum of the start-to-stop intervals completed since the last reset().
C40_StopCountsOnlyWhenRunning ==
    [][/\ (last_op' = "Timer::stop" /\ internal_state # "RUNNING") =>
             get_adjusted_time(accumulated') = get_adjusted_time(accumulated)
       /\ (last_op' = "Timer::time" /\ internal_state # "RUNNING") =>
             out_buffer' = <<completed>>]_vars

====
